---- MODULE Spec2Model ----
(***************************************************************************)
(* Voxel Conquest: the game store (store/gameStore), its turn cycle, hero  *)
(* movement, treasury commands and the deferred AI continuation; the       *)
(* seeded generator (utils/random) and the world generator                 *)
(* (world/worldGenerator).                                                 *)
(*                                                                         *)
(* Movement quantities (tile movement cost, movementPoints,                *)
(* maxMovementPoints, accumulated path cost) are stored DOUBLED, so that   *)
(* the road cost 0.5 is the integer 1 and every sum the code forms in      *)
(* floating point (multiples of 0.5, exact in binary) is an exact integer. *)
(*                                                                         *)
(* The store runs every mutation through immer: a producer that throws     *)
(* commits nothing, and every object put into the state is deep-frozen     *)
(* when the producer returns.  A draft is made per path: an object that    *)
(* the state holds in two places is copied where it is written and stays   *)
(* as it was in the other place.                                           *)
(***************************************************************************)
EXTENDS Integers, Sequences, FiniteSets, TLC

VARIABLES
    gamePhase,        \* GameState.gamePhase
    turn,             \* GameState.turn
    currentFaction,   \* GameState.currentFaction
    worldMap,         \* GameState.worldMap, named by its seed (WorldMap.seed)
    factions,         \* GameState.factions
    pointsOfInterest, \* GameState.worldMap.pointsOfInterest (the part of the world commands write)
    combatState,      \* GameState.combatState
    selectedHeroId,   \* GameState.selectedHeroId
    timers,           \* pending setTimeout(endTurn, 500) continuations, oldest first
    last,             \* the call that produced this state: its name and its result
    rng,              \* the SeededRandom generator constructed last (utils/random)
    made,             \* what the generator calls made last returned
    arrayHeld,        \* the array a caller of shuffle holds, as the calls leave it
    rng2              \* a second SeededRandom generator, constructed on the seed of rng

vars == <<gamePhase, turn, currentFaction, worldMap, factions, pointsOfInterest, combatState,
          selectedHeroId, timers, last, rng, made, arrayHeld, rng2>>

game == <<gamePhase, turn, currentFaction, worldMap, factions, pointsOfInterest, combatState,
          selectedHeroId>>

(***************************************************************************)
(* Bounds of the model.                                                    *)
(***************************************************************************)
\* endTurn is not issued as a command once the turn counter has reached MaxTurn.
MaxTurn == 2
\* endTurn is not issued as a command while MaxTimers continuations are pending.
MaxTimers == 2

(***************************************************************************)
(* Static data (core/types).                                               *)
(***************************************************************************)
Undefined == "undefined"

Kinds == {"gold", "wood", "stone", "crystals"}

\* TERRAIN_COSTS, doubled.  water is Infinity in the source: it is never
\* read, because water is impassable; it is given a cost above any budget.
TERRAIN_COSTS(terrain) ==
    CASE terrain = "grass"    -> 2
      [] terrain = "road"     -> 1
      [] terrain = "forest"   -> 4
      [] terrain = "desert"   -> 3
      [] terrain = "mountain" -> 6
      [] terrain = "water"    -> 1000000

TERRAIN_PASSABLE(terrain) == terrain \in {"grass", "road", "forest", "desert"}

Pos(px, py) == [x |-> px, y |-> py]

UnitTypes == {"warrior", "archer", "cavalry", "mage", "healer"}

\* Combat makes a stack's defence, its hit points and the damage dealt
\* fractional (defend multiplies the defence by 1.5).  These three are held as
\* fractions in lowest terms, [num, den] with den > 0, and computed exactly;
\* the doubles of the source are exact on them as long as the denominator is a
\* power of two and the numerator is below 2^53.
RECURSIVE GCD(_, _)
GCD(a, b) == IF b = 0 THEN a ELSE GCD(b, a % b)

Frac(n, d) ==
    LET g == GCD(IF n < 0 THEN -n ELSE n, d)
    IN  [num |-> n \div g, den |-> d \div g]

Whole(n) == [num |-> n, den |-> 1]

Plus(x, y) == Frac((x.num * y.den) + (y.num * x.den), x.den * y.den)

Minus(x, y) == Frac((x.num * y.den) - (y.num * x.den), x.den * y.den)

\* x * n / d, for whole n and d > 0
Scaled(x, n, d) == Frac(x.num * n, x.den * d)

\* Math.floor(x)
Floor(x) == x.num \div x.den

(***************************************************************************)
(* The numbers of the AI are IEEE-754 doubles: every sum, product and      *)
(* quotient is the exact result rounded to 53 significant bits, ties to    *)
(* the even mantissa.  A double is the record [neg, m, e, inf]: the number *)
(* m * 2^e, negated when neg, with the whole number m written in limbs of  *)
(* LimbBits bits, least significant first, and << >> for zero; inf marks   *)
(* Infinity.  The magnitudes that occur are far from the largest and the   *)
(* smallest double, and no operation here produces NaN or a negative zero  *)
(* that is read.                                                           *)
(***************************************************************************)
\* a limb holds 13 bits, so that a column of limb products stays below 2^31
Base == 2 ^ 13

RECURSIVE Bits(_)
Bits(n) == IF n = 0 THEN 0 ELSE 1 + Bits(n \div 2)

LimbBits == Bits(Base) - 1

limb(a, i) == IF i <= Len(a) THEN a[i] ELSE 0

\* a without its leading zero limbs
RECURSIVE Trim(_)
Trim(a) ==
    IF a = << >> THEN a
    ELSE IF a[Len(a)] = 0 THEN Trim(SubSeq(a, 1, Len(a) - 1))
    ELSE a

\* the limbs of a whole number n >= 0
RECURSIVE Limbs(_)
Limbs(n) == IF n = 0 THEN << >> ELSE << n % Base >> \o Limbs(n \div Base)

\* the whole number of at most two limbs
Small(a) == limb(a, 1) + (limb(a, 2) * Base)

\* the limbs of the number whose i-th limb place holds cols[i], carry c coming in
RECURSIVE Carried(_, _, _)
Carried(cols, i, c) ==
    IF i > Len(cols) THEN Limbs(c)
    ELSE << (cols[i] + c) % Base >> \o Carried(cols, i + 1, (cols[i] + c) \div Base)

LimbsSum(a, b) ==
    Trim(Carried([i \in 1..(IF Len(a) > Len(b) THEN Len(a) ELSE Len(b)) |->
                     limb(a, i) + limb(b, i)], 1, 0))

\* a - b from limb i on with borrow br, for a >= b
RECURSIVE Borrowed(_, _, _, _)
Borrowed(a, b, i, br) ==
    IF i > Len(a) THEN << >>
    ELSE IF a[i] - limb(b, i) - br < 0
         THEN << (a[i] - limb(b, i) - br) + Base >> \o Borrowed(a, b, i + 1, 1)
         ELSE << a[i] - limb(b, i) - br >> \o Borrowed(a, b, i + 1, 0)

LimbsDifference(a, b) == Trim(Borrowed(a, b, 1, 0))

\* the products a[i] * b[j] with i + j = k + 1, from i on, summed
RECURSIVE Column(_, _, _, _)
Column(a, b, k, i) ==
    IF i > Len(a) \/ i > k THEN 0
    ELSE (IF (k + 1) - i <= Len(b) THEN a[i] * b[(k + 1) - i] ELSE 0) + Column(a, b, k, i + 1)

LimbsProduct(a, b) ==
    IF a = << >> \/ b = << >> THEN << >>
    ELSE Trim(Carried([k \in 1..((Len(a) + Len(b)) - 1) |-> Column(a, b, k, 1)], 1, 0))

\* 1, 0 or -1 as a is above, equal to or below b, from limb i down
RECURSIVE ComparedFrom(_, _, _)
ComparedFrom(a, b, i) ==
    IF i = 0 THEN 0
    ELSE IF a[i] # b[i] THEN (IF a[i] > b[i] THEN 1 ELSE -1)
    ELSE ComparedFrom(a, b, i - 1)

Compared(a, b) ==
    IF Len(a) # Len(b) THEN (IF Len(a) > Len(b) THEN 1 ELSE -1)
    ELSE ComparedFrom(a, b, Len(a))

BitLength(a) == IF a = << >> THEN 0 ELSE (LimbBits * (Len(a) - 1)) + Bits(a[Len(a)])

\* a * 2^k
ShiftedLeft(a, k) ==
    IF a = << >> THEN a
    ELSE [i \in 1..(k \div LimbBits) |-> 0]
         \o Trim(Carried([i \in 1..Len(a) |-> a[i] * (2 ^ (k % LimbBits))], 1, 0))

\* a \div 2^k
ShiftedRight(a, k) ==
    IF k \div LimbBits >= Len(a) THEN << >>
    ELSE Trim([i \in 1..(Len(a) - (k \div LimbBits)) |->
                  (a[i + (k \div LimbBits)] \div (2 ^ (k % LimbBits)))
                  + ((limb(a, i + (k \div LimbBits) + 1) % (2 ^ (k % LimbBits)))
                       * (2 ^ (LimbBits - (k % LimbBits))))])

\* the bit of a worth 2^i
Bit(a, i) == (limb(a, (i \div LimbBits) + 1) \div (2 ^ (i % LimbBits))) % 2

\* the k lowest bits of a are zero
LowZero(a, k) ==
    /\ \A i \in 1..(k \div LimbBits) : limb(a, i) = 0
    /\ limb(a, (k \div LimbBits) + 1) % (2 ^ (k % LimbBits)) = 0

\* Long division by d, a bit at a time: the bits j..0 of the numerator limb n
\* are brought down onto the remainder st.r, the quotient bits gathered in st.q.
RECURSIVE DividedBits(_, _, _, _)
DividedBits(n, d, j, st) ==
    IF j < 0 THEN st
    ELSE CHOOSE out \in
            { DividedBits(n, d, j - 1,
                  IF Compared(r, d) >= 0
                  THEN [q |-> (2 * st.q) + 1, r |-> LimbsDifference(r, d)]
                  ELSE [q |-> 2 * st.q, r |-> r]) :
                r \in { LimbsSum(ShiftedLeft(st.r, 1), Limbs((n \div (2 ^ j)) % 2)) } } : TRUE

\* the limbs i..1 of the numerator n, the higher ones done
RECURSIVE DividedLimbs(_, _, _, _)
DividedLimbs(n, d, i, st) ==
    IF i = 0 THEN st
    ELSE CHOOSE out \in
            { DividedLimbs(n, d, i - 1, [q |-> << part.q >> \o st.q, r |-> part.r]) :
                part \in { DividedBits(n[i], d, LimbBits - 1, [q |-> 0, r |-> st.r]) } } : TRUE

\* n \div d and n % d, for d > 0
Divided(n, d) ==
    CHOOSE out \in
        { [q |-> Trim(st.q), r |-> st.r] :
            st \in { DividedLimbs(n, d, Len(n), [q |-> << >>, r |-> << >>]) } } : TRUE

\* how many of the lowest bits of a # << >> are zero, counted from limb i on
RECURSIVE TrailingZeros(_, _)
TrailingZeros(a, i) ==
    IF a[i] = 0 THEN LimbBits + TrailingZeros(a, i + 1)
    ELSE IF a[i] % 2 = 1 THEN 0
    ELSE 1 + TrailingZeros(<< a[i] \div 2 >>, 1)

\* the double m * 2^e, written with an odd m
Double(neg, m, e) ==
    IF m = << >> THEN [neg |-> FALSE, m |-> << >>, e |-> 0, inf |-> FALSE]
    ELSE IF m[1] % 2 = 1 THEN [neg |-> neg, m |-> m, e |-> e, inf |-> FALSE]
    ELSE CHOOSE out \in
            { [neg |-> neg, m |-> ShiftedRight(m, zeros), e |-> e + zeros, inf |-> FALSE] :
                zeros \in { TrailingZeros(m, 1) } } : TRUE

Infinity(neg) == [neg |-> neg, m |-> << >>, e |-> 0, inf |-> TRUE]

\* the double of a whole number below 2^31 in size
FromInt(n) == Double(n < 0, Limbs(IF n < 0 THEN -n ELSE n), 0)

\* m * 2^e, or a little more when sticky, rounded to the nearest double, a
\* tie to the even mantissa
Rounded(neg, m, e, sticky) ==
    IF m = << >> THEN Double(FALSE, << >>, 0)
    ELSE IF BitLength(m) <= 53 THEN Double(neg, m, e)
    ELSE CHOOSE out \in
            { Double(neg,
                     IF /\ Bit(m, drop - 1) = 1
                        /\ (sticky \/ ~LowZero(m, drop - 1) \/ Bit(m, drop) = 1)
                     THEN LimbsSum(ShiftedRight(m, drop), << 1 >>)
                     ELSE ShiftedRight(m, drop),
                     e + drop) :
                drop \in { BitLength(m) - 53 } } : TRUE

\* x * y
Product(x, y) ==
    IF x.inf \/ y.inf THEN Infinity(x.neg # y.neg)
    ELSE Rounded(x.neg # y.neg, LimbsProduct(x.m, y.m), x.e + y.e, FALSE)

\* x + y
Sum(x, y) ==
    IF x.inf THEN x
    ELSE IF y.inf THEN y
    ELSE IF x.m = << >> THEN y
    ELSE IF y.m = << >> THEN x
    ELSE CHOOSE out \in
            { IF x.neg = y.neg THEN Rounded(x.neg, LimbsSum(ab[1], ab[2]), ab[3], FALSE)
              ELSE IF Compared(ab[1], ab[2]) >= 0
                   THEN Rounded(x.neg, LimbsDifference(ab[1], ab[2]), ab[3], FALSE)
                   ELSE Rounded(y.neg, LimbsDifference(ab[2], ab[1]), ab[3], FALSE) :
                ab \in { IF x.e <= y.e
                         THEN << x.m, ShiftedLeft(y.m, y.e - x.e), x.e >>
                         ELSE << ShiftedLeft(x.m, x.e - y.e), y.m, y.e >> } } : TRUE

\* x / y; a zero divisor here is the positive zero.  A quotient of mantissas
\* that is a whole number is exact; any other is divided out to 55 bits or
\* more and rounded.
Quotient(x, y) ==
    IF x.inf THEN Infinity(x.neg # y.neg)
    ELSE IF y.m = << >> THEN Infinity(x.neg)
    ELSE IF x.m = << >> THEN Double(FALSE, << >>, 0)
    ELSE IF y.m = << 1 >> THEN Double(x.neg # y.neg, x.m, x.e - y.e)
    ELSE IF Len(x.m) <= 2 /\ Len(y.m) <= 2 /\ Small(x.m) % Small(y.m) = 0
    THEN Double(x.neg # y.neg, Limbs(Small(x.m) \div Small(y.m)), x.e - y.e)
    ELSE CHOOSE out \in
            { Rounded(x.neg # y.neg, qr.q, (x.e - y.e) - qr.k, qr.r # << >>) :
                qr \in { [q |-> d.q, r |-> d.r, k |-> k] :
                           k \in { IF (55 + BitLength(y.m)) - BitLength(x.m) > 0
                                   THEN (55 + BitLength(y.m)) - BitLength(x.m) ELSE 0 },
                           d \in { Divided(ShiftedLeft(x.m,
                                       IF (55 + BitLength(y.m)) - BitLength(x.m) > 0
                                       THEN (55 + BitLength(y.m)) - BitLength(x.m) ELSE 0),
                                       y.m) } } } : TRUE

\* 1, 0 or -1 as |x| is above, equal to or below |y|, for finite x and y
Magnitudes(x, y) ==
    IF x.m = << >> \/ y.m = << >>
    THEN (IF x.m = y.m THEN 0 ELSE IF y.m = << >> THEN 1 ELSE -1)
    ELSE IF x.e <= y.e THEN Compared(x.m, ShiftedLeft(y.m, y.e - x.e))
    ELSE Compared(ShiftedLeft(x.m, x.e - y.e), y.m)

\* 1, 0 or -1 as x is above, equal to or below y
Ordered(x, y) ==
    LET sx == IF x.m = << >> /\ ~x.inf THEN 0 ELSE IF x.neg THEN -1 ELSE 1
        sy == IF y.m = << >> /\ ~y.inf THEN 0 ELSE IF y.neg THEN -1 ELSE 1
    IN  IF sx # sy THEN (IF sx > sy THEN 1 ELSE -1)
        ELSE IF sx = 0 THEN 0
        ELSE IF x.inf \/ y.inf
             THEN (IF x.inf = y.inf THEN 0 ELSE IF x.inf THEN sx ELSE -sx)
        ELSE sx * Magnitudes(x, y)

\* the double nearest to the fraction x
FromFrac(x) == Quotient(FromInt(x.num), FromInt(x.den))

\* x is n / d for whole n and d below 2^15 in size
IsShort(x) ==
    /\ ~x.inf
    /\ BitLength(x.m) + (IF x.e > 0 THEN x.e ELSE 0) <= 15
    /\ x.e >= -15

\* A number as an action carries it: the fraction [n, d] of a double that is
\* n / d exactly with n and d below 2^15 in size, [n, 0] for an Infinity, and
\* the double itself otherwise.
Written(x) ==
    IF x.inf THEN [n |-> IF x.neg THEN -1 ELSE 1, d |-> 0]
    ELSE IF IsShort(x)
    THEN [n |-> (IF x.neg THEN -1 ELSE 1) * Small(x.m) * (2 ^ (IF x.e > 0 THEN x.e ELSE 0)),
          d |-> 2 ^ (IF x.e < 0 THEN -x.e ELSE 0)]
    ELSE x

\* the double a written number stands for
Value(p) ==
    IF "inf" \in DOMAIN p THEN p
    ELSE IF p.d = 0 THEN Infinity(p.n < 0)
    ELSE Quotient(FromInt(p.n), FromInt(p.d))

Stats(maxHp, attack, defense, speed, range) ==
    [maxHp |-> maxHp, hp |-> Whole(maxHp), attack |-> attack, defense |-> Whole(defense),
     speed |-> speed, range |-> range]

UNIT_TEMPLATES(type) ==
    CASE type = "warrior" -> [type |-> "warrior", name |-> "Warrior",
                              stats |-> Stats(50, 12, 8, 4, 1), count |-> 1, experience |-> 0]
      [] type = "archer"  -> [type |-> "archer", name |-> "Archer",
                              stats |-> Stats(30, 10, 4, 5, 4), count |-> 1, experience |-> 0]
      [] type = "cavalry" -> [type |-> "cavalry", name |-> "Cavalry",
                              stats |-> Stats(60, 14, 6, 7, 1), count |-> 1, experience |-> 0]
      [] type = "mage"    -> [type |-> "mage", name |-> "Mage",
                              stats |-> Stats(25, 18, 3, 4, 3), count |-> 1, experience |-> 0]
      [] type = "healer"  -> [type |-> "healer", name |-> "Healer",
                              stats |-> Stats(20, 5, 5, 5, 2), count |-> 1, experience |-> 0]

\* { ...UNIT_TEMPLATES[type], id, count }
Unit(type, id, count) ==
    [id         |-> id,
     type       |-> UNIT_TEMPLATES(type).type,
     name       |-> UNIT_TEMPLATES(type).name,
     stats      |-> UNIT_TEMPLATES(type).stats,
     count      |-> count,
     experience |-> UNIT_TEMPLATES(type).experience]

Resources(gold, wood, stone, crystals) ==
    [gold |-> gold, wood |-> wood, stone |-> stone, crystals |-> crystals]

\* combatState: undefined
NoCombat == [isActive |-> FALSE]

NoPoi == [id |-> Undefined, type |-> Undefined, position |-> Pos(-1, -1),
          factionId |-> Undefined, isDiscovered |-> FALSE]

\* The least index of seq whose element satisfies Test, 0 when there is none
\* (Array.prototype.find / findIndex).
FindIndex(seq, Test(_)) ==
    IF \E i \in 1..Len(seq) : Test(seq[i])
    THEN CHOOSE i \in 1..Len(seq) : Test(seq[i]) /\ \A j \in 1..(i - 1) : ~Test(seq[j])
    ELSE 0

(***************************************************************************)
(* Worlds.  generateWorld is a function of its configuration, and initGame  *)
(* passes it the seed and the map size of the game configuration (the       *)
(* counts of towns, camps, nodes and encounters are the defaults 6, 12, 20  *)
(* and 8).  No command covered here writes to the tiles or the nodes: the   *)
(* state holds the configuration, World(config) is the map generateWorld    *)
(* returns for it.  The worlds below are the generator's results for three  *)
(* configurations, written out: terrain, points of interest and resource    *)
(* nodes with every number and identifier the generator drew for them.     *)
(* A tile's elevation, a number read by the renderer only, is left out.     *)
(***************************************************************************)
NoNode == [id |-> Undefined]

MakeTile(terrain, px, py, pois, nodes) ==
    LET i == FindIndex(pois, LAMBDA p : p.position = Pos(px, py))
        j == FindIndex(nodes, LAMBDA n : n.position = Pos(px, py))
    IN  [position        |-> Pos(px, py),
         terrain         |-> terrain,
         movementCost    |-> TERRAIN_COSTS(terrain),
         isPassable      |-> TERRAIN_PASSABLE(terrain),
         pointOfInterest |-> IF i = 0 THEN NoPoi ELSE pois[i],
         resourceNode    |-> IF j = 0 THEN NoNode ELSE nodes[j]]

\* The WorldMap generateWorld returns: the tiles with the points of interest
\* and the nodes attached at their positions.
generateWorld(seed, rows, pois, nodes) ==
    [width            |-> Len(rows[1]),
     height           |-> Len(rows),
     tiles            |-> [r \in 1..Len(rows) |->
                            [c \in 1..Len(rows[1]) |->
                                MakeTile(rows[r][c], c - 1, r - 1, pois, nodes)]],
     pointsOfInterest |-> pois,
     resourceNodes    |-> nodes,
     seed             |-> seed]

RecruitOption(unitType, cost, available) ==
    [unitType |-> unitType, cost |-> cost, available |-> available]

\* The five options in pool order, with the availabilities drawn (from 5..14,
\* 3..9, 2..5, 1..3 and 2..4).
generateRecruitPool(available) ==
    << RecruitOption("warrior", Resources(100, 0, 0, 0), available[1]),
       RecruitOption("archer",  Resources(80, 20, 0, 0), available[2]),
       RecruitOption("cavalry", Resources(200, 0, 0, 0), available[3]),
       RecruitOption("mage",    Resources(250, 0, 0, 20), available[4]),
       RecruitOption("healer",  Resources(150, 0, 0, 10), available[5]) >>

\* A garrison: the stacks drawn (type, id and count), in order.
generateGarrison(stacks) ==
    [k \in 1..Len(stacks) |-> Unit(stacks[k][1], stacks[k][2], stacks[k][3])]

createTown(id, name, px, py, isPlayerStart, stacks, available, resources) ==
    [id |-> id, type |-> "town", name |-> name, position |-> Pos(px, py),
     factionId |-> IF isPlayerStart THEN "player" ELSE "neutral",
     isDiscovered |-> isPlayerStart,
     garrison |-> IF isPlayerStart THEN << >> ELSE generateGarrison(stacks),
     recruitPool |-> generateRecruitPool(available),
     resources |-> resources]

createEnemyCamp(id, name, px, py, factionId, difficulty, stacks, rewards) ==
    [id |-> id, type |-> "enemy_camp", name |-> name, position |-> Pos(px, py),
     factionId |-> factionId, isDiscovered |-> FALSE,
     garrison |-> generateGarrison(stacks), difficulty |-> difficulty,
     rewards |-> rewards]

\* A node as generateResourceNodes creates it: unowned, and without ownedBy.
ResourceNode(id, kind, px, py, amount) ==
    [id |-> id, resourceType |-> kind, position |-> Pos(px, py),
     amountPerTurn |-> amount, isOwned |-> FALSE]

\* GameConfig: the part initGame hands to the generator.
GameConfig(seed, mapWidth, mapHeight) ==
    [seed |-> seed, mapWidth |-> mapWidth, mapHeight |-> mapHeight]

\* generateWorld for seed "hills" at 4 x 3: grass throughout, the player's
\* town, nothing else.  No neutral town: the enemy hero gets the fallback
\* position (50, 50).
\*      x = 0      1        2        3
\* y=0  grass    grass    grass    grass
\* y=1  grass    grass    TOWN     grass
\* y=2  grass    grass    grass    grass
Hills == GameConfig("hills", 4, 3)

WorldHills ==
    generateWorld("hills",
        [r \in 1..3 |-> [c \in 1..4 |-> "grass"]],
        << createTown("town_c8iropwh", "Crystalvale", 2, 1, TRUE, << >>, << 7, 4, 5, 3, 4 >>,
                      Resources(111, 174, 128, 30)) >>,
        << >>)

\* generateWorld for seed "wold" at 4 x 8: forest in the west, water in the
\* south-east corner, the player's town, an enemy camp of difficulty 3 and one
\* node.  No neutral town.
\*      x = 0      1        2        3
\* y=0  grass    grass    grass    grass
\* y=1  grass    grass    TOWN     grass
\* y=2  forest   forest   grass    grass
\* y=3  forest   NODE     forest   grass      (the node stands on forest)
\* y=4  forest   forest   forest   grass
\* y=5  forest   forest   forest   grass
\* y=6  forest   CAMP     grass    water      (the camp stands on forest)
\* y=7  forest   grass    water    water
Wold == GameConfig("wold", 4, 8)

WorldWold ==
    generateWorld("wold",
        << << "grass",  "grass",  "grass",  "grass" >>,
           << "grass",  "grass",  "grass",  "grass" >>,
           << "forest", "forest", "grass",  "grass" >>,
           << "forest", "forest", "forest", "grass" >>,
           << "forest", "forest", "forest", "grass" >>,
           << "forest", "forest", "forest", "grass" >>,
           << "forest", "forest", "grass",  "water" >>,
           << "forest", "grass",  "water",  "water" >> >>,
        << createTown("town_1zr63597", "Meadowbrook", 2, 1, TRUE, << >>, << 13, 9, 2, 3, 2 >>,
                      Resources(333, 111, 93, 19)),
           createEnemyCamp("camp_ju9bxz92", "Skeleton Camp", 1, 6, "enemy_1", 3,
                           << << "cavalry", "unit_nv0g3tpo", 15 >>,
                              << "cavalry", "unit_bcevuq1y", 15 >>,
                              << "warrior", "unit_4sskrsoi", 16 >>,
                              << "cavalry", "unit_c6u2ta6p", 12 >>,
                              << "warrior", "unit_p9vt26ay", 14 >>,
                              << "cavalry", "unit_rcyycwvn", 16 >>,
                              << "archer", "unit_z8a7q15y", 13 >> >>,
                           Resources(415, 97, 61, 19)) >>,
        << ResourceNode("resource_ziqk15wj", "wood", 1, 3, 5) >>)

\* generateWorld for seed "road" at 12 x 3: grass, the player's town in the
\* east and a neutral town in the west, the road generateRoads carves from
\* the first to the second, and two nodes on the road.  The road walk starts
\* on the player's town (its tile becomes road) and stops before the neutral
\* town (which keeps its grass).
\*      x = 0      1      2      3     4      5,6    7      8,9    10     11
\* y=0  grass    grass  grass  grass grass  grass  grass  grass  grass  grass
\* y=1  grass    TOWN   road   road  NODE   road   NODE   road   TOWN   grass
\* y=2  grass    grass  grass  grass grass  grass  grass  grass  grass  grass
Road == GameConfig("road", 12, 3)

WorldRoad ==
    generateWorld("road",
        [r \in 1..3 |-> [c \in 1..12 |-> IF r = 2 /\ c \in 3..11 THEN "road" ELSE "grass"]],
        << createTown("town_lugecjjl", "Frostgate", 10, 1, TRUE, << >>, << 14, 8, 2, 2, 3 >>,
                      Resources(337, 177, 148, 26)),
           createTown("town_63icozf7", "Stormwind", 1, 1, FALSE,
                      << << "warrior", "unit_um4z7xsu", 10 >>,
                         << "warrior", "unit_updlyb21", 6 >>,
                         << "archer", "unit_oixkwd9r", 7 >> >>,
                      << 9, 8, 5, 3, 3 >>, Resources(233, 111, 96, 15)) >>,
        << ResourceNode("resource_e6jhlsb0", "wood", 7, 1, 19),
           ResourceNode("resource_niauimdg", "crystals", 4, 1, 11) >>)

\* The store's world before initGame.
EmptyWorld ==
    [width |-> 0, height |-> 0, tiles |-> << >>, pointsOfInterest |-> << >>,
     resourceNodes |-> << >>, seed |-> ""]

\* The configuration of the store's world before initGame.
NoGame == GameConfig("", 0, 0)

\* The game configurations played.
GameConfigs == {Hills, Wold, Road}

World(config) ==
    CASE config = Hills  -> WorldHills
      [] config = Wold   -> WorldWold
      [] config = Road   -> WorldRoad
      [] config = NoGame -> EmptyWorld

(***************************************************************************)
(* SeededRandom (utils/random).  seedrandom(seed) is a stream of numbers in *)
(* [0, 1) fixed by the seed.  A seed is written as the stream it gives: a    *)
(* sequence of draws, each a whole number of `of`-ths.  A generator is its   *)
(* stream and its place in it.  The streams of DrawSeeds and WorldSeeds are  *)
(* taken up again from their start when they run out.                        *)
(***************************************************************************)
Grain == 4

StreamLen == 2

\* Streams of StreamLen draws, each a number of Grain-ths.
DrawSeeds == { [stream |-> s, of |-> Grain] : s \in [1..StreamLen -> 0..(Grain - 1)] }

\* The streams generateWorld is run on: two draws, each a number of quarters.
WorldSeeds == { [stream |-> << a, b >>, of |-> 4] : a, b \in 0..3 }

\* seedrandom(seed) for the seeds of the games played: the numbers the stream
\* begins with, each in millionths, rounded down.  (initGame draws the first
\* 50, a third hero 25 more; Math.floor(random() * n) is the same on the
\* rounded number for every n and draw used.)
seedrandom(seed) ==
    CASE seed = "hills" ->
            [stream |-> << 947467, 161262, 213487, 469396, 468667, 560644, 813190, 228459,
                          229432, 370485, 79849, 860494, 577020, 22255, 175709, 83903, 650038,
                          113016, 3762, 975308, 568782, 690199, 235379, 714383, 328313, 429614,
                          974140, 359045, 471166, 577464, 354978, 477031, 292678, 64189, 644952,
                          618699, 432400, 613392, 633474, 495720, 570892, 400475, 231192,
                          507476, 18019, 421863, 51860, 210608, 962618, 493077, 511173, 446732,
                          901869, 541485, 699498, 220335, 169930, 452920, 789965, 354915,
                          970974, 249869, 756067, 100068, 723903, 434453, 44224, 905484, 14811,
                          192895, 754286, 874105, 80404, 949777, 262603, 344379 >>,
             of     |-> 1000000]
      [] seed = "wold" ->
            [stream |-> << 12889, 248560, 843110, 237987, 816802, 970340, 695775, 615404, 679770,
                          83326, 652805, 175476, 685024, 225556, 703313, 201138, 498166, 902305,
                          729754, 646443, 638664, 832627, 883567, 445573, 705713, 456116,
                          269131, 543446, 839761, 339014, 813631, 198573, 448306, 827426,
                          539487, 339855, 141546, 490331, 333890, 115060, 668180, 196636,
                          319137, 384492, 630096, 661176, 688842, 532063, 31046, 331320, 87055,
                          351639, 559037, 650773, 171675, 581279, 602198, 250303, 623614,
                          233216, 300862, 198588, 961053, 444795, 458066, 209141, 329408,
                          950012, 474116, 196755, 622297, 121375, 334719, 769870, 709992, 922206 >>,
             of     |-> 1000000]
      [] seed = "road" ->
            [stream |-> << 478529, 712994, 80506, 793432, 670018, 591522, 69649, 501330, 277298,
                          744608, 713471, 777297, 168276, 739716, 233231, 464088, 711155,
                          754173, 734389, 488691, 803188, 836904, 76030, 5056, 95434, 190136,
                          967837, 444131, 43652, 566068, 427802, 82604, 714603, 97652, 29807,
                          471696, 844284, 863290, 544642, 998311, 562058, 917055, 927007,
                          788832, 359463, 567543, 216672, 311648, 719533, 603257, 247024,
                          323231, 917249, 333487, 479417, 730688, 587613, 502483, 112520,
                          524868, 378883, 662568, 286840, 637641, 732433, 200237, 366652,
                          498159, 235001, 648088, 234321, 517845, 398376, 850677, 897411, 435925 >>,
             of     |-> 1000000]

\* new SeededRandom(seed)
SeededRandom(seed) == [stream |-> seed.stream, of |-> seed.of, at |-> 0]

\* The k-th number the generator g returns from now on (k = 1 the next one), in
\* g.of-ths.
random(g, k) == g.stream[((g.at + k - 1) % Len(g.stream)) + 1]

\* The generator after k draws.
Drawn(g, k) == [g EXCEPT !.at = (@ + k) % Len(g.stream)]

\* randomInt(min, max) on the k-th draw: Math.floor(random() * (max - min)) + min
randomInt(g, k, min, max) == ((random(g, k) * (max - min)) \div g.of) + min

\* randomFloat(min, max) on the k-th draw: random() * (max - min) + min
randomFloat(g, k, min, max) == Plus(Frac(random(g, k) * (max - min), g.of), Whole(min))

\* randomElement(array) on the k-th draw; undefined on the empty array.
randomElement(g, k, array) ==
    IF Len(array) = 0 THEN Undefined ELSE array[randomInt(g, k, 0, Len(array)) + 1]

\* chance(probability) on the k-th draw, the probability in tenths.
chance(g, k, tenths) == random(g, k) * 10 < tenths * g.of

chars ==
    << "a", "b", "c", "d", "e", "f", "g", "h", "i", "j", "k", "l", "m", "n", "o", "p", "q", "r",
       "s", "t", "u", "v", "w", "x", "y", "z", "0", "1", "2", "3", "4", "5", "6", "7", "8", "9" >>

\* randomId(length) from draw k on: one character by randomInt(0, 36) for
\* each place.
RECURSIVE randomId(_, _, _)
randomId(g, k, length) ==
    IF length <= 0 THEN ""
    ELSE chars[randomInt(g, k, 0, Len(chars)) + 1] \o randomId(g, k + 1, length - 1)

\* [result[i], result[j]] = [result[j], result[i]]
swap(result, i, j) == [result EXCEPT ![i] = result[j], ![j] = result[i]]

\* A variant without the copy (const result = array): result names the array
\* handed in.
spread_none(array) == [result |-> "array", arrays |-> [array |-> array, copy |-> << >>]]

\* const result = [...array].  The arrays of the call are kept by name:
\* "array" is the one handed in, "copy" a new one with the same elements, and
\* result names the copy.
spread(array) == [result |-> "copy", arrays |-> [array |-> array, copy |-> array]]

\* The for loop of shuffle from index i (0-based, as in the source) down to 1,
\* swapping in the array that result names; the pass at index i reads draw
\* number length - i.
RECURSIVE shuffleLoop(_, _, _)
shuffleLoop(st, g, i) ==
    IF i <= 0 THEN st
    ELSE CHOOSE out \in
            { shuffleLoop(swapped, g, i - 1) : swapped \in
                { [st EXCEPT !.arrays[st.result] =
                      swap(@, i + 1,
                           randomInt(g, Len(st.arrays[st.result]) - i, 0, i + 1) + 1)] } } : TRUE

\* shuffle(array) on generator g: the array returned (the one result names),
\* the array handed in as the loop leaves it, and the generator afterwards.
shuffle(array, g) ==
    CHOOSE out \in
        { [ret   |-> done.arrays[done.result],
           array |-> done.arrays.array,
           rng   |-> Drawn(g, IF Len(array) > 0 THEN Len(array) - 1 ELSE 0)] :
            done \in { shuffleLoop(spread(array), g, Len(array) - 1) } } : TRUE

\* pickMultiple(array, count) on generator g: the first min(count,
\* array.length) elements of shuffle(array), and the generator afterwards.
pickMultiple(array, count, g) ==
    LET shuffled == shuffle(array, g)
    IN  [ret |-> SubSeq(shuffled.ret, 1, IF count < Len(array) THEN count ELSE Len(array)),
         rng |-> shuffled.rng]

\* No call made yet.
NoCall == [op |-> "none"]

NoCalls == [first |-> NoCall, second |-> NoCall]

(***************************************************************************)
(* The world generator (world/worldGenerator), draw by draw.  The noise     *)
(* (class SimplexNoise) is arithmetic on doubles over a permutation table    *)
(* that the generator shuffles; its results for the streams of WorldSeeds    *)
(* are written out, in units of 10^-9 (rounded to the nearest; two values   *)
(* less than 10^-9 apart are written as one number).  For every tile        *)
(* written out determineTerrain decides on these numbers as it does on the  *)
(* doubles.                                                                 *)
(***************************************************************************)
manhattanDistance(a, b) ==
    (IF a.x >= b.x THEN a.x - b.x ELSE b.x - a.x)
      + (IF a.y >= b.y THEN a.y - b.y ELSE b.y - a.y)

\* For each stream of WorldSeeds: the moisture offset generateTerrain draws
\* after the noise table is shuffled, and what octaveNoise returns for the
\* tiles (x, y) with x < 16 and y < 6, row by row: for the elevation,
\* octaveNoise(x * scale, y * scale, 4, 0.5), and for the moisture,
\* octaveNoise((x + moistureOffset) * scale, (y + moistureOffset) * scale, 3, 0.6).
NoiseMaps ==
    << [stream |-> << 0, 0 >>, moistureOffset |-> 100,
        elevation |->
           << << 0, -74881000, -88192000, -106961133, -109747200, -78125000, -51409067,
                  -70879267, -77414400, -24413267, 0, 20304467, 52701867, 9996067, -50171733,
                  -55208333 >>,
              << 117914833, 10426218, -63272379, -97037039, -93220716, -83571863, -75672297,
                  -81644382, -76634482, -5579611, 21041567, 6606380, -2500921, -25808155,
                  -46623384, -52395576 >>,
              << 197034667, 75760559, -9398153, -46039105, -66616107, -112639142, -126819077,
                  -106775030, -100402086, -46095854, -38225067, -74337774, -69734143, -48481641,
                  -53375925, -97817442 >>,
              << 233478567, 126586868, 54671586, 303763, -31685227, -83083472, -94453115,
                  -67248685, -81773706, -97409495, -131149833, -165772377, -133101834,
                  -95387238, -82118394, -121375559 >>,
              << 249198933, 180120642, 88671281, 2767565, -25078181, -62770567, -67408530,
                  -28128210, -67971943, -149999822, -188885333, -196095374, -183564580,
                  -169016093, -140577306, -158923100 >>,
              << 294270833, 238605446, 130059067, 35688501, 11482233, -25745646, -50859400,
                  -41895478, -90396900, -150438853, -160937500, -156682004, -165844433,
                  -163610208, -129705100, -140906779 >> >>,
        moisture  |->
           << << 0, -28046167, -4143673, 59284649, 120594286, 153958068, 168498612, 171350578,
                  194836898, 235224792, 255102041, 260759813, 249741061, 187891476, 87576490,
                  896843 >>,
              << 100745610, 66059442, 61025946, 83921301, 114103478, 134184616, 145633721,
                  161312471, 203513042, 254242705, 273113680, 275873126, 266760058, 213778595,
                  126460578, 52082786 >>,
              << 203646367, 158395705, 112411234, 86118004, 87845828, 104657745, 125091454,
                  159092579, 206259658, 242127766, 242872653, 231564556, 221200262, 186064402,
                  124185082, 65581975 >>,
              << 259889288, 206323996, 133671512, 82674329, 77724949, 100733517, 134334076,
                  179919701, 211548620, 210783759, 184296626, 155407731, 144437562, 133502859,
                  103915586, 61554398 >>,
              << 257491592, 201537144, 128758515, 86337285, 93408033, 121496380, 160390932,
                  206300201, 218023138, 187374538, 144835918, 109035056, 103814223, 115695870,
                  112445375, 81572028 >>,
              << 227798151, 172476527, 111300607, 86497522, 103795538, 128490876, 163485774,
                  208073941, 217986712, 187213213, 150370695, 123602750, 131732028, 160221414,
                  170644549, 143963755 >> >> ],
       [stream |-> << 0, 1 >>, moistureOffset |-> 325,
        elevation |->
           << << 0, -74881000, -88192000, -100783000, -73344000, -78125000, -75456000,
                  -26267000, -4608000, 25831000, 0, -25831000, 4608000, 20088867, 39052800,
                  78125000 >>,
              << 117914833, 43033833, 29722833, 17131833, 44570833, 39789833, 42458833,
                  91647833, 113306833, 143745833, 117914833, 92083833, 122522833, 136532810,
                  139633886, 170644633 >>,
              << 197034667, 122153667, 108842667, 96251667, 123690667, 118909667, 121578667,
                  170767667, 192426667, 222865667, 197034667, 171203667, 201642667, 215668459,
                  218940103, 250037533 >>,
              << 233478567, 159235150, 144189330, 133792803, 159496983, 155353567, 158660150,
                  206114330, 229967803, 258671983, 233478567, 208285150, 236989330, 256477581,
                  291149620, 336725700 >>,
              << 249198933, 181831554, 148076517, 161346350, 168341313, 171073933, 181256554,
                  210001517, 257521350, 267516313, 249198933, 230881554, 240876517, 287906053,
                  322919229, 352719133 >>,
              << 294270833, 230397833, 187134833, 212431833, 209918833, 216145833, 229822833,
                  249059833, 308606833, 309093833, 294270833, 279447833, 279934833, 339481833,
                  358718833, 372395833 >> >>,
        moisture  |->
           << << 232282366, 236339292, 275182443, 323554802, 339103948, 307019292, 268907698,
                  253249496, 244003489, 212500925, 152164381, 107055210, 114902621, 152777659,
                  173575351, 153958068 >>,
              << 296607727, 294684018, 308080777, 323210250, 318179759, 285109224, 254894720,
                  258303334, 271089780, 252307162, 192420191, 144737595, 150409097, 186801765,
                  206903662, 187165714 >>,
              << 336765978, 325558124, 303408312, 279987640, 261216868, 241242006, 230905137,
                  251109046, 268785928, 246403258, 186352239, 141122802, 148868524, 186674285,
                  207439459, 187816537 >>,
              << 318729849, 301307146, 259826063, 225331972, 217909309, 223205878, 236712221,
                  262287084, 261851410, 218188457, 157169579, 118943740, 132611216, 174451258,
                  197110043, 177815510 >>,
              << 251440029, 234466690, 201051616, 189366140, 211815775, 239941527, 268811583,
                  291410010, 269519959, 206813195, 148288412, 120040632, 142144858, 189732560,
                  215089181, 196262506 >>,
              << 180365115, 167400653, 153298824, 171343020, 217972656, 255102041, 287514691,
                  310492082, 287013829, 226192816, 176777742, 159611429, 191085370, 245056327,
                  273409120, 255102041 >> >> ],
       [stream |-> << 0, 2 >>, moistureOffset |-> 550,
        elevation |->
           << << 0, 74881000, 88192000, 100783000, 73344000, 78125000, 75456000, 26267000,
                  10786133, 10572200, 0, -10572200, -10786133, -26267000, -75456000, -78125000 >>,
              << 117914833, 186629191, 210083649, 211711016, 179061508, 170463676, 169840330,
                  144010218, 110682047, 82454061, 80163367, 95391756, 105100071, 80362859,
                  28586194, 12521190 >>,
              << 197034667, 246247482, 290860817, 280148422, 271781268, 248700033, 231304103,
                  219762763, 152834753, 98849879, 121122133, 165015949, 167558092, 135120494,
                  114742198, 82768767 >>,
              << 233478567, 262151222, 310634160, 316030795, 347516468, 332567595, 290398751,
                  251012745, 190123851, 165508469, 185794300, 198043324, 176827602, 162702376,
                  183092453, 154192205 >>,
              << 249198933, 258879976, 305890481, 318228888, 338975430, 343669133, 322742792,
                  279493746, 239772410, 241329736, 224349867, 196197857, 187094224, 173381024,
                  172256465, 154728733 >>,
              << 294270833, 290478876, 331406333, 341811595, 342403633, 356221517, 364131783,
                  347476752, 330722833, 336957908, 294270833, 250442426, 250096167, 219320915,
                  182084550, 165653483 >> >>,
        moisture  |->
           << << 0, -10409143, -13267592, 26675265, 98766367, 153061224, 185001796, 196936163,
                  156993306, 75826286, 0, -58804898, -87026939, -96641633, -115787755,
                  -153061224 >>,
              << -20107997, -22929623, -5897091, 57597160, 143417188, 197755709, 221572007,
                  212367440, 146229243, 46320841, -37129385, -96526348, -110631488, -97655267,
                  -100215286, -133586398 >>,
              << -13792653, -12523766, 13475537, 77908742, 151341050, 188019375, 193470329,
                  168734015, 98252492, 1298405, -83759020, -145580209, -154339298, -130880952,
                  -124774692, -154948355 >>,
              << -1508686, -300935, 26850846, 78885457, 125669429, 135848404, 121247936,
                  96378092, 49727875, -21113002, -101803217, -168985258, -186703937, -172634543,
                  -171055234, -199522103 >>,
              << -18487347, -20325873, 9355890, 57730196, 90324574, 84154200, 59960405,
                  46601421, 31212522, -11630375, -87701388, -160814764, -191756307, -192958901,
                  -199283285, -225514200 >>,
              << -74736926, -81026791, -42314732, 21830573, 65059238, 61057733, 40227666,
                  36878853, 35099943, 1469850, -74736926, -150943702, -184573795, -186352705,
                  -189701518, -210531585 >> >> ],
       [stream |-> << 0, 3 >>, moistureOffset |-> 775,
        elevation |->
           << << 0, 117914833, 197034667, 239656700, 285602133, 294270833, 268544000,
                  295030833, 336452267, 340035900, 266666667, 175116433, 131857067, 141633500,
                  172373333, 160937500 >>,
              << 74881000, 171648891, 239086691, 264698545, 300601920, 300068679, 272830003,
                  298107154, 329772058, 352082010, 291817033, 196580595, 137386852, 129798310,
                  140225696, 128230350 >>,
              << 88192000, 156320753, 255203311, 290503095, 315286634, 302693292, 284115588,
                  299536172, 289170399, 302688631, 253154133, 173280637, 121593815, 89499582,
                  113979801, 116914992 >>,
              << 100783000, 130481988, 200708359, 256096799, 335035516, 345005960, 324680267,
                  326726716, 295650479, 269572848, 202578167, 139983170, 127297046, 100514515,
                  116713304, 105014810 >>,
              << 73344000, 81231405, 141841990, 206455171, 319165656, 348030200, 325296894,
                  313109570, 283036017, 274581098, 215765333, 145639755, 122117284, 92021101,
                  78864792, 71605000 >>,
              << 78125000, 77258570, 133646217, 179757854, 248710200, 264808146, 268069575,
                  301533635, 297352467, 297666383, 239062500, 173607760, 158214200, 124881546,
                  95570725, 90414429 >> >>,
        moisture  |->
           << << 184935356, 160827802, 116521072, 91431361, 89546980, 78324298, 51417716,
                  2663308, -43815417, -50123782, -4613254, 63938956, 128151593, 139678217,
                  95197388, 38713728 >>,
              << 215612761, 196522367, 157390720, 133769575, 128390597, 112512000, 80647652,
                  25912084, -24448316, -31107532, 15859298, 85328086, 148776649, 161174349,
                  121350153, 71849796 >>,
              << 207524404, 208773762, 198015350, 187160667, 169932717, 133983038, 81117715,
                  4754982, -56629069, -62530632, -13109575, 53383274, 104836113, 111353989,
                  81760074, 52475807 >>,
              << 182450725, 208863206, 227754223, 220710188, 176768349, 110340245, 30464512,
                  -65004435, -126113728, -120078259, -65504971, -4320372, 28898432, 25595090,
                  8710501, 6115102 >>,
              << 183197704, 220938147, 244577618, 219407240, 142149287, 50906962, -45123213,
                  -140542282, -182311058, -154258328, -93160219, -35991633, -16027331,
                  -26647054, -34862984, -18868415 >>,
              << 227798151, 257491592, 259889288, 203646367, 100745610, 0, -96028875,
                  -175277388, -189997860, -140880980, -74736926, -18487347, -1508686, -13792653,
                  -20107997, 0 >> >> ],
       [stream |-> << 1, 0 >>, moistureOffset |-> 100,
        elevation |->
           << << 0, -74881000, -88192000, -100783000, -73344000, -78125000, -75456000,
                  -26267000, -4608000, 25831000, 0, -25831000, 4608000, 26267000, 75456000,
                  78125000 >>,
              << 74881000, 0, -13311000, -25902000, 1537000, -3244000, -575000, 48614000,
                  70273000, 100712000, 74881000, 45555620, 69118583, 90777583, 146842620,
                  153006000 >>,
              << 88192000, 13311000, 0, -12591000, 14848000, 10067000, 12736000, 61925000,
                  83584000, 114023000, 88192000, 68374583, 110646764, 132305764, 169661583,
                  166317000 >>,
              << 106961133, 32080133, 18769133, 6178133, 33617133, 28836133, 31505133,
                  80694133, 102353133, 132792133, 106961133, 73155363, 87902074, 109561074,
                  174442363, 185086133 >>,
              << 109747200, 34866200, 21555200, 8964200, 36403200, 31622200, 34291200,
                  83480200, 105139200, 135578200, 109747200, 75854748, 90430890, 112089890,
                  177141748, 187872200 >>,
              << 78125000, 3244000, -10067000, -22658000, 4781000, 0, 2669000, 51858000,
                  73517000, 103956000, 78125000, 52294000, 82733000, 104392000, 153581000,
                  156250000 >> >>,
        moisture  |->
           << << 0, -79007487, -105311020, -89703329, -71666939, -74736926, -70680000,
                  -31836849, 16535510, 32084656, 0, -32084656, -16535510, 31836849, 70680000,
                  74736926 >>,
              << 29168839, -48317130, -69576782, -46899230, -23198012, -23479368, -17915552,
                  19772415, 65958701, 81773705, 53792723, 26808625, 47073163, 99525039,
                  141695771, 148320477 >>,
              << 12004898, -59609113, -65326260, -22801365, 14179113, 16214848, 18530379,
                  43676498, 73667652, 80908533, 56474286, 36173834, 61809964, 117722282,
                  161509265, 168431676 >>,
              << -36202921, -100155593, -94621927, -41042098, 893044, 279725, -3207756,
                  12204883, 32779757, 37712100, 19961460, 8272766, 39972142, 98332513,
                  141275770, 145320988 >>,
              << -73312653, -130436926, -128253272, -86641420, -58070142, -68416374, -77936690,
                  -59456892, -27653720, -9228146, -15598367, -17409313, 20586224, 80198502,
                  119910183, 118150198 >>,
              << -74736926, -125695681, -136088332, -120937509, -117367258, -142201599,
                  -158372291, -129482724, -74364681, -33464713, -26407047, -18365699, 25407283,
                  85060703, 119793496, 110327468 >> >> ],
       [stream |-> << 1, 1 >>, moistureOffset |-> 325,
        elevation |->
           << << 0, 74881000, 88192000, 106961133, 109747200, 78125000, 51409067, 70879267,
                  77414400, 24413267, 0, -20304467, -52701867, -9996067, 50171733, 55208333 >>,
              << 74881000, 143595357, 167049815, 173727436, 170695170, 141817043, 121941050,
                  137336571, 118025857, 66743622, 36993000, 15287498, 1690828, 36072806,
                  64745538, 68341757 >>,
              << 88192000, 137404815, 182018150, 174215904, 195124855, 183923500, 160531249,
                  156916210, 120244609, 100743342, 66176000, 37381167, 44977147, 45408670,
                  59364067, 92949033 >>,
              << 100783000, 129455656, 177938593, 180425080, 180526175, 149627761, 132822944,
                  161630358, 149627147, 155240093, 122799000, 90621225, 98446198, 86399079,
                  88010984, 108071572 >>,
              << 73344000, 83025043, 130035548, 139432175, 128453001, 117023800, 118040659,
                  131615520, 128780280, 145634680, 111232000, 74867963, 83946840, 76395856,
                  109198916, 109664200 >>,
              << 78125000, 74333043, 115260500, 125665761, 126257800, 140075684, 147985950,
                  131330918, 114577000, 120812074, 78125000, 37492326, 54029267, 61538815,
                  95457650, 82840983 >> >>,
        moisture  |->
           << << 134000973, 173249172, 206325078, 193269161, 135302734, 74736926, 33550873,
                  40355548, 78389019, 103744027, 92003491, 74737232, 86512984, 110584955,
                  111423211, 74736926 >>,
              << 121040730, 165103345, 200730982, 190213213, 133850181, 70680000, 25475290,
                  28993830, 65544019, 94524312, 94180494, 91542931, 115447497, 148716910,
                  155579186, 121226939 >>,
              << 71422103, 101610886, 122194493, 114538222, 78096414, 31836849, -1317819,
                  6373484, 35004898, 54932949, 59127106, 63450575, 84588801, 117546628,
                  134635111, 115665421 >>,
              << 10752436, 15573381, 10831900, 6216956, 504533, -16535510, -27154476,
                  -10396390, 6168650, 7694384, 8535727, 10684489, 16322909, 40224004, 67727707,
                  70452245 >>,
              << -18164623, -32355671, -55244822, -56758867, -38596762, -32084656, -24067075,
                  127421, 6612658, -9035118, -16702648, -23234115, -35521496, -23617538,
                  7701855, 23899018 >>,
              << 0, -17844245, -43216163, -41636571, -15125878, 0, 15125878, 41636571,
                  43216163, 17844245, 0, -17844245, -43216163, -41636571, -15125878, 0 >> >> ],
       [stream |-> << 1, 2 >>, moistureOffset |-> 550,
        elevation |->
           << << 0, -117914833, -197034667, -239656700, -285602133, -294270833, -293939200,
                  -320152967, -311330133, -314640700, -266666667, -212867900, -207769600,
                  -189317767, -197222400, -160937500 >>,
              << -117914833, -205869066, -254025813, -272564407, -297714070, -292167163,
                  -279247757, -293786993, -275323983, -271444233, -218112617, -159385226,
                  -149563840, -126775775, -130887906, -91475032 >>,
              << -197034667, -254025813, -322754321, -336404563, -355768254, -341360508,
                  -317977532, -323261679, -297217365, -287359163, -229068800, -165660935,
                  -151408959, -124600060, -125234377, -82983775 >>,
              << -239656700, -274672881, -336762401, -357656221, -386244851, -371955891,
                  -342952123, -341699143, -313923423, -298494699, -236658217, -171208423,
                  -151376699, -120463615, -116488916, -74072445 >>,
              << -285602133, -322561438, -359985201, -384136377, -407347877, -417734200,
                  -394776255, -375473448, -371816817, -336440251, -278365867, -232317995,
                  -190673587, -149576571, -124753662, -103601267 >>,
              << -294270833, -328570363, -347538642, -365777758, -381331000, -405714925,
                  -390710346, -367671171, -380543633, -336918035, -280468750, -243705141,
                  -190680333, -144356510, -109075788, -98986816 >> >>,
        moisture  |->
           << << 127551020, 120785826, 153874286, 204959640, 226223265, 192671795, 139428571,
                  108182497, 90957551, 59366234, 0, -54088163, -58657959, -26750204, 822857, 0 >>,
              << 152900208, 138507366, 145365697, 163359540, 165222467, 132934556, 87958387,
                  67074812, 59089884, 33992773, -20107997, -65971874, -52247966, 2576720,
                  46314160, 49673260 >>,
              << 167481469, 142028751, 111614818, 89495675, 76828492, 58296911, 36912334,
                  42368388, 52014325, 34105132, -13792653, -53267059, -37464681, 16673255,
                  60756449, 66873253 >>,
              << 128449869, 94866945, 42120959, 5009623, 172359, 5341916, 12500436, 42148574,
                  59763025, 40271466, -1508686, -33657363, -22223211, 20850701, 58584039,
                  67655343 >>,
              << 40136082, 5030752, -43750149, -64069957, -45024307, -20669265, 3102080,
                  37943979, 45708670, 16466893, -18487347, -38539947, -18903715, 29371901,
                  72091745, 86573791 >>,
              << -48329879, -81315031, -115472426, -113318743, -77612305, -49269735, -25901661,
                  -2191304, -11602647, -48904875, -74736926, -77404436, -29856792, 50253955,
                  115734605, 137588345 >> >> ],
       [stream |-> << 1, 3 >>, moistureOffset |-> 775,
        elevation |->
           << << 0, 74881000, 88192000, 100783000, 73344000, 78125000, 100851200, 51389133,
                  -14336000, -14823000, 0, 1784067, 40004267, 52717533, 11191467, -78125000 >>,
              << 74881000, 149762000, 163073000, 175664000, 148225000, 153006000, 167670748,
                  118295363, 68519770, 68119452, 74881000, 92072296, 143842567, 137222653,
                  58314951, -39647200 >>,
              << 88192000, 163073000, 176384000, 188975000, 161536000, 166317000, 165118890,
                  115914074, 97523059, 97293310, 88192000, 117952773, 159407481, 117440032,
                  63267440, 3888867 >>,
              << 100783000, 176987603, 195892532, 205931222, 174617297, 178908000, 176239000,
                  127050000, 111926971, 115572147, 106961133, 117731737, 113752979, 60836900,
                  46270957, 22658000 >>,
              << 73344000, 152267211, 208761143, 191274363, 140910084, 151469000, 148800000,
                  99611000, 86238607, 108763568, 109747200, 117224423, 103100670, 42720363,
                  15300527, -4781000 >>,
              << 78125000, 141998000, 185261000, 153785867, 126073800, 156250000, 153581000,
                  104392000, 88911133, 88697200, 78125000, 92948000, 92461000, 32914000,
                  13677000, 0 >> >>,
        moisture  |->
           << << 200408235, 136025829, 90127657, 55518138, 4718461, -74736926, -152137692,
                  -192625341, -208924610, -233394885, -278861571, -306948468, -283258090,
                  -231236671, -196560582, -201391103 >>,
              << 217517851, 149032044, 96990818, 57750292, 6154373, -71666939, -147931510,
                  -191426905, -215410384, -247822841, -295936626, -326191388, -316223354,
                  -280641366, -250065666, -242716082 >>,
              << 209121737, 134077901, 66183936, 17098945, -28213793, -89703329, -149929135,
                  -188275279, -223123114, -270630656, -321399967, -352380286, -355463540,
                  -328436065, -286922138, -253100545 >>,
              << 199072510, 116579558, 28136305, -33160115, -68152701, -105311020, -141325923,
                  -169667993, -216452499, -282576059, -336470725, -366307835, -373335145,
                  -338005129, -269362446, -201462694 >>,
              << 227655199, 140238767, 37555805, -32078003, -59426076, -79007487, -97467526,
                  -118115206, -172686717, -251525960, -307588944, -335358300, -338196862,
                  -287065740, -192705256, -100450170 >>,
              << 307019292, 218537796, 112710119, 41246694, 15632853, 0, -14510181, -33385469,
                  -89628390, -171256163, -227798151, -254858939, -255523217, -199115755,
                  -97829793, 0 >> >> ],
       [stream |-> << 2, 0 >>, moistureOffset |-> 100,
        elevation |->
           << << 0, -74881000, -88192000, -100783000, -73344000, -78125000, -75456000,
                  -26267000, -4608000, 25831000, 0, -25831000, 4608000, 26267000, 75456000,
                  78125000 >>,
              << 74881000, 14980300, -6150209, -23594792, -7823955, -1825802, 11444851,
                  48485254, 64643682, 86610911, 75189833, 63757252, 85690881, 101796266,
                  138768332, 151960574 >>,
              << 88192000, 67073896, 35657506, 6800666, -5370096, 19836042, 51284405, 57592941,
                  58576282, 66453755, 90474667, 114410548, 122039673, 122630968, 128434407,
                  159303208 >>,
              << 100783000, 104532258, 87308004, 54829375, 30673079, 50763901, 74880673,
                  63196301, 52440147, 66271035, 107879500, 151184802, 168102719, 156127750,
                  139013989, 159367796 >>,
              << 73344000, 77223651, 93726968, 69976517, 57948679, 51390833, 45560859,
                  37054619, 22897893, 58079223, 88789333, 130479925, 186719740, 169910297,
                  135247492, 113940167 >>,
              << 78125000, 85441106, 123930817, 111207741, 110747933, 91413371, 68826108,
                  61066717, 43213267, 85237125, 105729167, 125192932, 164213533, 141619102,
                  127751592, 98155721 >> >>,
        moisture  |->
           << << 0, -97151547, -183138612, -213079588, -188162612, -153958068, -117951673,
                  -87522006, -107849143, -179241119, -255102041, -304438833, -295131429,
                  -241316945, -185520000, -153958068 >>,
              << 9793446, -78354467, -141512349, -146181895, -108169246, -74950580, -47947819,
                  -40347335, -85945903, -170433551, -245308594, -286627632, -257557618,
                  -180228311, -109535511, -74950580 >>,
              << 5016490, -58951424, -92237007, -85558444, -61286077, -48647047, -45824287,
                  -68096101, -125042777, -195790144, -250085551, -271641979, -226439947,
                  -145633297, -80614769, -48647047 >>,
              << 19736962, -14501279, -24978248, -29373104, -43650881, -64254739, -91161651,
                  -136242079, -182115336, -214312559, -235365079, -233406683, -184727308,
                  -126067496, -88251004, -64254739 >>,
              << 54645551, 39720555, 37309595, 13583468, -36240880, -82291129, -128511286,
                  -181657724, -208199709, -204850361, -200456490, -183602240, -140597137,
                  -109139360, -98803431, -82291129 >>,
              << 74736926, 63820807, 61859212, 31918236, -27190258, -79221142, -129450176,
                  -183045978, -203373115, -190739621, -180365115, -160487866, -120099972,
                  -96613652, -93761686, -79221142 >> >> ],
       [stream |-> << 2, 1 >>, moistureOffset |-> 325,
        elevation |->
           << << 0, -74881000, -88192000, -100783000, -73344000, -78125000, -75456000,
                  -26267000, -4608000, 25831000, 0, -25831000, 4608000, 26267000, 75456000,
                  78125000 >>,
              << 74881000, 6166643, -17287815, -18424886, 7956409, -3063043, -5934076,
                  44372945, 78681710, 97569117, 74881000, 52228054, 71291829, 103949028,
                  145009776, 153966376 >>,
              << 88192000, 38979185, -5634150, 9443466, 30592762, 11404500, 3461067, 58188534,
                  113918550, 105144091, 88192000, 71477890, 63896800, 115901525, 144511766,
                  172702167 >>,
              << 100783000, 71472761, 24724643, 23693230, 34607825, 26816105, 34511763,
                  92252343, 138675257, 117948591, 100783000, 84287472, 66920863, 113780031,
                  151433781, 196493895 >>,
              << 73344000, 56149337, 29582868, -13618189, -29724033, 4269000, 56489617,
                  95822281, 103644537, 94504734, 73344000, 53487563, 50888210, 72448242,
                  135735729, 184744333 >>,
              << 78125000, 70908957, 59933500, -716028, -31806200, 16174316, 82418717,
                  107009748, 95535400, 96690192, 78125000, 61614208, 73070867, 85859985,
                  161024883, 206742350 >> >>,
        moisture  |->
           << << -168534104, -169507188, -164039188, -123014747, -54869761, 0, 54869761,
                  123014747, 164039188, 169507188, 168534104, 168366314, 181989897, 190233999,
                  158553058, 78324298 >>,
              << -194626640, -195090523, -179036209, -122774157, -47571175, 822857, 45640694,
                  105376245, 141682383, 147576694, 152331783, 162822714, 191874204, 215572042,
                  193394480, 115144653 >>,
              << -215230897, -218905152, -202445715, -143815903, -69273883, -26750204,
                  10681988, 63333350, 94159036, 97529814, 103350244, 121108839, 169743654,
                  218175968, 212893209, 138349110 >>,
              << -193009263, -202576686, -199436666, -157571948, -95752938, -58657959,
                  -24870817, 23084237, 48550467, 46960245, 49220855, 67067034, 123594801,
                  184027187, 187452591, 114870857 >>,
              << -132066955, -145926365, -157940141, -136477179, -88665162, -54088163,
                  -20017823, 26140158, 47275514, 39485987, 34861077, 44562889, 88153729,
                  134266264, 128393133, 53822778 >>,
              << -74736926, -87701388, -101803217, -83759020, -37129385, 0, 37129385, 83759020,
                  101803217, 87701388, 74736926, 71666939, 89703329, 105311020, 79007487, 0 >> >> ],
       [stream |-> << 2, 2 >>, moistureOffset |-> 550,
        elevation |->
           << << 0, 117914833, 197034667, 239656700, 285602133, 294270833, 293939200,
                  320152967, 311330133, 314640700, 266666667, 212867900, 207769600, 189317767,
                  197222400, 160937500 >>,
              << 74881000, 177815533, 264754876, 310269306, 358288256, 367733636, 367640506,
                  394182119, 385662318, 389156809, 341238833, 287472457, 282415313, 264009933,
                  271962379, 235722593 >>,
              << 88192000, 152343938, 249569161, 302636738, 359717503, 372693792, 373955149,
                  402374417, 395597892, 400157679, 352576000, 299016637, 294222537, 276114052,
                  284372080, 248420625 >>,
              << 100783000, 136488212, 221287751, 281245103, 350327218, 366947932, 369558470,
                  401953392, 401788028, 408648102, 360353167, 305827785, 301691015, 287216754,
                  296235858, 259516704 >>,
              << 73344000, 70317066, 140439388, 230771359, 306775370, 311443000, 302191833,
                  340484551, 377108963, 387524274, 324565333, 255052712, 252199117, 270365230,
                  280847438, 229485000 >>,
              << 78125000, 52044327, 109861583, 209038093, 283155400, 280982463, 268155625,
                  313156716, 372074600, 386635508, 317187500, 240888634, 239742067, 275686598,
                  288137875, 230490112 >> >>,
        moisture  |->
           << << 0, -32084656, -16535510, 31836849, 70680000, 74736926, 71666939, 89703329,
                  105311020, 79007487, 0, -79007487, -105311020, -89703329, -71666939, -74736926 >>,
              << 49106043, 12492915, 7083460, 23801135, 35312142, 24278724, 8155513, 9338225,
                  10591205, -21325709, -97829793, -172308808, -193815987, -173581648,
                  -149242116, -142216515 >>,
              << 86501878, 47620709, 31447409, 31069316, 26077564, 3265906, -30319328,
                  -65053930, -96750645, -137039667, -199115755, -255164484, -265907818,
                  -247796584, -228760583, -216174314 >>,
              << 68457681, 31004730, 20808585, 27469629, 24426889, -3631760, -52192048,
                  -120050439, -177928273, -216633563, -255523217, -285972125, -283473740,
                  -272401645, -266775160, -253400143 >>,
              << -1465959, -35967362, -33086504, -8507282, 116039, -27329196, -80959852,
                  -156566736, -212380319, -235616869, -254858939, -267230394, -256002722,
                  -251388299, -257427876, -246017089 >>,
              << -74736926, -108131786, -100137742, -67861301, -52644681, -76530612,
                  -124564844, -183099964, -213916355, -216694500, -227798151, -236281393,
                  -223949334, -222573888, -233855946, -226004464 >> >> ],
       [stream |-> << 2, 3 >>, moistureOffset |-> 775,
        elevation |->
           << << 0, 117914833, 197034667, 239656700, 285602133, 294270833, 293939200,
                  320152967, 311330133, 314640700, 266666667, 212867900, 207769600, 189317767,
                  197222400, 160937500 >>,
              << 74881000, 177815533, 264754876, 310269306, 358288256, 367733636, 367640506,
                  394182119, 387133208, 406490557, 366634033, 304806205, 283886203, 264009933,
                  271962379, 235722593 >>,
              << 88192000, 152343938, 249569161, 302636738, 359717503, 372693792, 373955149,
                  402374417, 397052966, 417305042, 377698133, 316164001, 295677611, 276114052,
                  284372080, 248420625 >>,
              << 100783000, 137959102, 222742825, 279790029, 348856328, 366947932, 371029360,
                  403408466, 398877880, 390029849, 335231033, 292112498, 307511311, 291581976,
                  296726154, 259516704 >>,
              << 73344000, 87650814, 157586751, 213623996, 289441623, 311443000, 319525581,
                  357631914, 358490710, 352856779, 299170133, 266608544, 302170317, 287512593,
                  275069522, 229485000 >>,
              << 78125000, 77439527, 134983717, 183915959, 257760200, 280982463, 293550825,
                  338278850, 346952467, 361240308, 317187500, 266283834, 264864200, 250564465,
                  262742675, 230490112 >> >>,
        moisture  |->
           << << 92003491, 54175293, 43905407, 40718897, 5753875, -74736926, -175532579,
                  -280789708, -347442356, -369486700, -381756218, -381602137, -369702984,
                  -389489946, -444674723, -496103715 >>,
              << 126929885, 100955786, 102670695, 107856703, 76074966, -4098612, -105890215,
                  -217582747, -297873766, -336944089, -363436212, -376243380, -383327840,
                  -420230279, -479722272, -521458939 >>,
              << 116841147, 121294763, 152624686, 174528499, 145194000, 64091610, -36969348,
                  -151681409, -248468918, -314482884, -365073922, -397091681, -415651644,
                  -447906974, -491524748, -519743450 >>,
              << 80256792, 120805208, 178784058, 205642865, 167138710, 81971265, -14801712,
                  -118655909, -215775638, -299960041, -374291245, -424068696, -438386859,
                  -439867263, -447894209, -460495347 >>,
              << 59230558, 122241101, 185231797, 196143670, 137322441, 46190227, -44130643,
                  -124648190, -198841951, -276863815, -359107572, -414373063, -413723477,
                  -380090210, -354889906, -356113547 >>,
              << 74736926, 140880980, 189997860, 175277388, 96028875, 0, -84846894, -141541224,
                  -182676486, -235559184, -307019292, -354323265, -341536537, -293172245,
                  -256962915, -255102041 >> >> ],
       [stream |-> << 3, 0 >>, moistureOffset |-> 100,
        elevation |->
           << << 0, -74881000, -88192000, -106961133, -109747200, -78125000, -51409067,
                  -70879267, -77414400, -24413267, 0, 20304467, 52701867, 16174200, -13768533,
                  -55208333 >>,
              << 117914833, 34220176, 1628123, -23576687, -30240429, -137516, 22264033,
                  -4801040, -11864805, 47704599, 75467783, 73851202, 73658740, 40621287,
                  39449693, 7301349 >>,
              << 197034667, 111016060, 67551010, 26035099, 5996003, 29790217, 57518737,
                  45474689, 35664719, 74877935, 92300800, 84679324, 107026347, 110573324,
                  94133246, 36940450 >>,
              << 239656700, 167984420, 148287204, 97552037, 63609444, 74730065, 77339852,
                  32806505, 21151845, 84698038, 112847050, 106784509, 143010716, 161683528,
                  124154894, 51144302 >>,
              << 285602133, 214945666, 199078265, 153968856, 118807506, 90318200, 45303001,
                  11543715, 28771787, 88387896, 98056533, 90557471, 128640393, 152762012,
                  136238054, 72147933 >>,
              << 294270833, 218152593, 197647292, 169540037, 173805000, 140906779, 76550304,
                  61027003, 90079900, 129366586, 119531250, 106728447, 131992733, 138896297,
                  103256729, 31489054 >> >>,
        moisture  |->
           << << 0, -79007487, -105311020, -89703329, -71666939, -74736926, -70680000,
                  -31836849, 16535510, 32084656, 0, -32084656, -16535510, 31836849, 70680000,
                  74736926 >>,
              << 33885574, -46608743, -78830630, -70938866, -59604580, -68284631, -69125902,
                  -34906590, 9022516, 22833728, -6050909, -32829725, -9493959, 49950287,
                  102564997, 121599956 >>,
              << 40373878, -45150007, -94605867, -101913484, -93029044, -95753504, -89937870,
                  -56120939, -24167047, -23471345, -52768163, -74201128, -42509969, 29299687,
                  97621430, 133942892 >>,
              << 33688508, -58678665, -131054993, -156973559, -147574995, -137431549,
                  -118080014, -81798774, -65384849, -83686829, -115428932, -131724689,
                  -91813623, -7668951, 76431310, 130185114 >>,
              << 43297959, -53951430, -142717073, -182051322, -172517739, -153421008,
                  -124511714, -86330718, -80553523, -111695059, -144339592, -156090505,
                  -109340041, -15309170, 81196426, 148509987 >>,
              << 78324298, -20060127, -112726072, -155510008, -146486177, -125800347,
                  -94793020, -55635962, -50968722, -83021852, -113450654, -121617251, -70504994,
                  28874083, 131456774, 205021488 >> >> ],
       [stream |-> << 3, 1 >>, moistureOffset |-> 325,
        elevation |->
           << << 0, -74881000, -88192000, -106961133, -109747200, -78125000, -51409067,
                  -70879267, -77414400, -24413267, 0, 20304467, 52701867, 9996067, -50171733,
                  -55208333 >>,
              << 74881000, -8813658, -24448606, -28871414, -30641668, -4481241, 13438783,
                  -27411125, -34981815, 38898508, 74572167, 80842393, 77861506, 17103172,
                  -33244401, -29707131 >>,
              << 88192000, -14783711, -41291657, -21946629, -19887069, 1635458, 41295073,
                  25452482, 13520850, 60634033, 85909333, 102943918, 115289312, 47984745,
                  -26388971, -34146442 >>,
              << 100783000, -6519914, -51089597, -41321663, -35744817, -1289796, 55210802,
                  51966723, 37339151, 69190670, 93686500, 123262070, 152177706, 96886459,
                  27668745, 16344499 >>,
              << 73344000, -15097694, -91922517, -97808716, -93450628, -51902833, -1340733,
                  1955421, 13042437, 22447053, 57898667, 129631327, 175666460, 141495532,
                  103493760, 70661433 >>,
              << 78125000, -280149, -93008317, -109459635, -112377933, -75239054, -33846125,
                  -28901902, -829667, 3912534, 50520833, 131800075, 157102867, 131695283,
                  109439892, 64836629 >> >>,
        moisture  |->
           << << -8200626, -6355451, -26746666, -46161849, -24992244, 48329879, 127352419,
                  175047283, 201689926, 233861121, 278861571, 312326477, 319203631, 267910892,
                  170207243, 74736926 >>,
              << -16976310, -21359653, -45903484, -65847625, -43636405, 29077959, 109477326,
                  166779365, 207033138, 250633808, 303477428, 344331460, 359788401, 318416192,
                  229264604, 138248327 >>,
              << -61530463, -86562614, -122019550, -136859090, -103358350, -28155338, 58769187,
                  144744607, 216092631, 271727116, 317733594, 349327581, 364975408, 338421219,
                  268272014, 185631788 >>,
              << -116420395, -169789757, -219843995, -226766950, -176731823, -97515102,
                  -4011422, 108808459, 203083268, 257122860, 282454110, 292350836, 300698322,
                  289484006, 242952490, 170746776 >>,
              << -139054535, -213719011, -275371328, -277855186, -217120159, -135878820,
                  -41566239, 74839335, 162863117, 197501132, 199869526, 189402104, 188767854,
                  186440662, 156609148, 93113059 >>,
              << -114347497, -196491184, -263621632, -267922286, -207286640, -127551020,
                  -38347295, 59817796, 118946320, 126758939, 113450654, 92146939, 85100768,
                  83096327, 58243562, 0 >> >> ],
       [stream |-> << 3, 2 >>, moistureOffset |-> 550,
        elevation |->
           << << 0, 117914833, 197034667, 239656700, 285602133, 294270833, 293939200,
                  320152967, 311330133, 314640700, 266666667, 212867900, 207769600, 189317767,
                  197222400, 160937500 >>,
              << 74881000, 177815533, 264754876, 310269306, 358288256, 367733636, 375701958,
                  418106429, 409586628, 397218262, 341238833, 276632300, 252042960, 238149100,
                  272047139, 248078859 >>,
              << 88192000, 152343938, 249569161, 302636738, 359717503, 372693792, 381929919,
                  426041476, 419264952, 408132449, 352576000, 299997231, 304525145, 304961252,
                  330259513, 299211025 >>,
              << 100783000, 139920289, 228563121, 285610325, 350817515, 366947932, 361583700,
                  378286332, 378120969, 400673332, 360353167, 311515621, 326257753, 335456416,
                  363354421, 332323104 >>,
              << 73344000, 99206646, 191881478, 247918723, 300997455, 311443000, 294130381,
                  316560241, 353184653, 379462822, 324565333, 275296608, 285296020, 287512593,
                  310847809, 279729267 >>,
              << 78125000, 77439527, 134983717, 183915959, 257760200, 280982463, 268155625,
                  313156716, 372074600, 386635508, 317187500, 266283834, 264864200, 250564465,
                  262742675, 230490112 >> >>,
        moisture  |->
           << << -127551020, -120820462, -144133878, -175603511, -178371837, -140754544,
                  -90580245, -53563317, -75894041, -158511830, -255102041, -351130916,
                  -430379429, -445099901, -395983020, -329838967 >>,
              << -27933242, -27236877, -55446027, -93359103, -107908703, -87866209, -61737315,
                  -63590337, -125208033, -228962598, -326176955, -412642226, -465832566,
                  -448402340, -376091998, -298991269 >>,
              << 66273306, 50564004, 22290908, -9059965, -29904113, -36717402, -50669591,
                  -106736216, -206142168, -313197219, -393466776, -455081725, -474534455,
                  -437521191, -366863419, -296046314 >>,
              << 107587847, 70292433, 45312006, 28916855, 6884923, -29054325, -84124075,
                  -178782774, -283475208, -362298875, -411502904, -442704359, -435405316,
                  -401064690, -356625903, -304467749 >>,
              << 95548327, 42664108, 20243914, 15411035, -5867941, -60491765, -137830236,
                  -236307713, -312831096, -349191239, -371344653, -382717921, -364383533,
                  -343048096, -324870085, -287176110 >>,
              << 74736926, 17356736, -5126231, -7249090, -27438200, -84731238, -161398741,
                  -241628697, -286090031, -294909184, -307019292, -314192330, -294305170,
                  -276833805, -264489333, -228694994 >> >> ],
       [stream |-> << 3, 3 >>, moistureOffset |-> 775,
        elevation |->
           << << 0, 117914833, 197034667, 239656700, 285602133, 294270833, 293939200,
                  320152967, 311330133, 314640700, 266666667, 212867900, 207769600, 183139633,
                  160819200, 160937500 >>,
              << 74881000, 177815533, 264754876, 310269306, 358288256, 367733636, 367640506,
                  394182119, 387133208, 406490557, 366634033, 285188920, 241616707, 233473030,
                  243620632, 235722593 >>,
              << 88192000, 152343938, 249569161, 302636738, 359717503, 372693792, 373955149,
                  402374417, 397052966, 417305042, 377698133, 290278504, 266190255, 293602978,
                  304226730, 248420625 >>,
              << 100783000, 137959102, 222742825, 280147867, 353073275, 373126065, 373775417,
                  402311229, 399975117, 389392265, 335231033, 268335475, 278381793, 309786577,
                  322906224, 265694837 >>,
              << 73344000, 87650814, 157586751, 215732469, 314288991, 347846200, 327039201,
                  342593024, 371421127, 345343158, 299170133, 271838628, 264117767, 263301110,
                  296422511, 265888200 >>,
              << 78125000, 77439527, 134983717, 183915959, 257760200, 280982463, 268155625,
                  313156716, 365896467, 350232308, 317187500, 302687034, 271042333, 250564465,
                  262742675, 230490112 >> >>,
        moisture  |->
           << << -128490876, -25419075, 30492591, 45232132, 53132466, 78324298, 117083762,
                  157884252, 159813459, 120376483, 76530612, 42023823, 33077505, 29879196,
                  -5930505, -87940450 >>,
              << -122144190, -17860742, 42633897, 63026720, 73158919, 95490612, 130106335,
                  168340012, 170426036, 131776281, 86342864, 49466004, 38845524, 35042964,
                  -156157, -80532245 >>,
              << -151378813, -61120491, 4329005, 39831428, 55294924, 64016671, 80777869,
                  111576968, 122907178, 100071925, 61612501, 27463568, 19425382, 17825523,
                  -15610404, -94455450 >>,
              << -191118320, -124739765, -55731686, -1253454, 20653556, 10045714, 1861232,
                  23196850, 49634760, 52092203, 26968646, 57216, -1674920, 1319027, -29475765,
                  -107057959 >>,
              << -197340058, -152195424, -84377967, -18999552, 6255514, -18307079, -43986637,
                  -28019191, 12046126, 36712448, 26055177, 9247356, 16145419, 25157390,
                  -2588551, -79273383 >>,
              << -153958068, -120594286, -59284649, 4143673, 28046167, 0, -29168839, -12004898,
                  36202921, 73312653, 74736926, 69034286, 85337258, 100780408, 76091671, 0 >> >> ] >>

\* new SimplexNoise(rng): the permutation table is rng.shuffle of 0..255, 255
\* draws; the noise is that of the stream as the shuffle reads it, from the
\* generator's place on.
SimplexNoise(g) ==
    CHOOSE map \in { NoiseMaps[i] : i \in 1..Len(NoiseMaps) } :
        g.of = 4 /\ map.stream = [k \in 1..Len(g.stream) |-> random(g, k)]

\* noise.octaveNoise(x * scale, y * scale, 4, 0.5), in 10^-9
elevationNoise(noise, x, y) == noise.elevation[y + 1][x + 1]

\* noise.octaveNoise((x + moistureOffset) * scale, (y + moistureOffset) * scale,
\* 3, 0.6), in 10^-9, for the offset the generator of the noise draws next
moistureNoise(noise, moistureOffset, x, y) ==
    IF moistureOffset = Whole(noise.moistureOffset)
    THEN noise.moisture[y + 1][x + 1]
    ELSE Undefined

\* (value + 1) / 2, in 10^-9
normalized(value) == (value + 1000000000) \div 2

\* determineTerrain(elevation, moisture), both in 10^-9
determineTerrain(elevation, moisture) ==
    IF elevation < 300000000 THEN "water"
    ELSE IF elevation > 750000000 THEN "mountain"
    ELSE IF moisture < 300000000 /\ elevation > 350000000 THEN "desert"
    ELSE IF moisture > 600000000 /\ elevation < 650000000 THEN "forest"
    ELSE "grass"

\* The draws the generator has made when generateTerrain returns: the
\* shuffle of the 256 entries of the noise table and the moisture offset.
TerrainDraws == 256

\* generateTerrain(width, height, noise, rng), the noise made on generator g
\* and rng the same generator after it: one tile per position.
generateTerrain(width, height, g) ==
    LET noise          == SimplexNoise(g)
        moistureOffset == randomFloat(Drawn(g, TerrainDraws - 1), 1, 100, 1000)
    IN  [r \in 1..height |->
            [c \in 1..width |->
                LET normalizedElevation == normalized(elevationNoise(noise, c - 1, r - 1))
                    normalizedMoisture  ==
                        normalized(moistureNoise(noise, moistureOffset, c - 1, r - 1))
                    terrain == determineTerrain(normalizedElevation, normalizedMoisture)
                IN  [position        |-> Pos(c - 1, r - 1),
                     terrain         |-> terrain,
                     elevation       |-> normalizedElevation,
                     movementCost    |-> TERRAIN_COSTS(terrain),
                     isPassable      |-> TERRAIN_PASSABLE(terrain),
                     pointOfInterest |-> NoPoi,
                     resourceNode    |-> NoNode]]]

\* findValidPositions: the inner positions, row by row, whose terrain is one
\* of validTerrains and passable.
findValidPositions(tiles, validTerrains) ==
    LET h == Len(tiles)
        w == IF h = 0 THEN 0 ELSE Len(tiles[1])
        inner == IF h <= 2 \/ w <= 2 THEN << >>
                 ELSE [k \in 1..((h - 2) * (w - 2)) |->
                          Pos(((k - 1) % (w - 2)) + 1, ((k - 1) \div (w - 2)) + 1)]
    IN  SelectSeq(inner, LAMBDA p : /\ tiles[p.y + 1][p.x + 1].terrain \in validTerrains
                                    /\ tiles[p.y + 1][p.x + 1].isPassable)

\* generateGarrison(rng, difficulty) from draw k on: the stacks, and the
\* number of draws made.
garrisonSize(g, k, difficulty) == (difficulty * 2) + randomInt(g, k, 1, 3)

generateGarrisonFrom(g, k, difficulty) ==
    [i \in 1..garrisonSize(g, k, difficulty) |->
        LET at == k + 1 + ((i - 1) * 10)
        IN  Unit(randomElement(g, at, << "warrior", "archer", "cavalry" >>),
                 "unit_" \o randomId(g, at + 1, 8),
                 (difficulty * 3) + randomInt(g, at + 9, 2, 8))]

garrisonDraws(g, k, difficulty) == 1 + (10 * garrisonSize(g, k, difficulty))

\* generateRecruitPool(rng) from draw k on (five draws).
generateRecruitPoolFrom(g, k) ==
    << RecruitOption("warrior", Resources(100, 0, 0, 0), randomInt(g, k, 5, 15)),
       RecruitOption("archer",  Resources(80, 20, 0, 0), randomInt(g, k + 1, 3, 10)),
       RecruitOption("cavalry", Resources(200, 0, 0, 0), randomInt(g, k + 2, 2, 6)),
       RecruitOption("mage",    Resources(250, 0, 0, 20), randomInt(g, k + 3, 1, 4)),
       RecruitOption("healer",  Resources(150, 0, 0, 10), randomInt(g, k + 4, 2, 5)) >>

\* The draws createTown makes: id (8), name (1), garrison, pool (5),
\* resources (4).
townDraws(g, isPlayerStart) ==
    9 + (IF isPlayerStart THEN 0 ELSE garrisonDraws(g, 10, 1)) + 5 + 4

\* createTown(position, rng, isPlayerStart) on generator g.
createTownFrom(position, g, isPlayerStart) ==
    LET afterGarrison == 10 + (IF isPlayerStart THEN 0 ELSE garrisonDraws(g, 10, 1))
    IN  [id           |-> "town_" \o randomId(g, 1, 8),
         type         |-> "town",
         name         |-> randomElement(g, 9,
                      << "Ironhold", "Silverdale", "Goldcrest", "Stonehaven", "Oakshire",
                      "Riverwatch", "Hillcrest", "Meadowbrook", "Thornfield", "Crystalvale",
                      "Frostgate", "Sunhaven", "Shadowmere", "Brightwater", "Stormwind" >>),
         position     |-> position,
         factionId    |-> IF isPlayerStart THEN "player" ELSE "neutral",
         isDiscovered |-> isPlayerStart,
         garrison     |-> IF isPlayerStart THEN << >> ELSE generateGarrisonFrom(g, 10, 1),
         recruitPool  |-> generateRecruitPoolFrom(g, afterGarrison),
         resources    |-> Resources(randomInt(g, afterGarrison + 5, 100, 500),
                                    randomInt(g, afterGarrison + 6, 50, 200),
                                    randomInt(g, afterGarrison + 7, 30, 150),
                                    randomInt(g, afterGarrison + 8, 10, 50))]

\* A variant that finds no position too close.
tooClose_never(pos, places, minDistance) == FALSE

\* places.some((p) => manhattanDistance(pos, p.position) < minDistance)
tooClose(pos, places, minDistance) ==
    \E i \in 1..Len(places) : manhattanDistance(pos, places[i].position) < minDistance

\* The for loop of generateTowns from the i-th shuffled position on; st is the
\* towns made and the generator.
RECURSIVE townsLoop(_, _, _, _)
townsLoop(positions, i, count, st) ==
    IF i > Len(positions) \/ Len(st.made) >= count THEN st
    ELSE IF tooClose(positions[i], st.made, 8) THEN townsLoop(positions, i + 1, count, st)
    ELSE CHOOSE out \in
            { townsLoop(positions, i + 1, count, next) : next \in
                { [made |-> Append(st.made,
                                   createTownFrom(positions[i], st.rng, Len(st.made) = 0)),
                   rng  |-> Drawn(st.rng, townDraws(st.rng, Len(st.made) = 0))] } } : TRUE

\* generateTowns(tiles, count, rng): the towns and the generator afterwards.
generateTowns(tiles, count, g) ==
    CHOOSE out \in
        { townsLoop(shuffled.ret, 1, count, [made |-> << >>, rng |-> shuffled.rng]) :
            shuffled \in { shuffle(findValidPositions(tiles, {"grass", "desert"}), g) } } : TRUE

\* The draws an enemy camp takes: difficulty (1), id (8), name (1), faction
\* (1), garrison, rewards (4).
campDraws(g) == 11 + garrisonDraws(g, 12, randomInt(g, 1, 1, 5)) + 4

\* The camp generateEnemyCamps pushes at pos, on generator g.
createEnemyCampFrom(pos, g) ==
    LET difficulty == randomInt(g, 1, 1, 5)
        afterGarrison == 12 + garrisonDraws(g, 12, difficulty)
    IN  [id           |-> "camp_" \o randomId(g, 2, 8),
         type         |-> "enemy_camp",
         name         |-> randomElement(g, 10, << "Goblin", "Bandit", "Orc",
                                                  "Skeleton", "Troll" >>) \o " Camp",
         position     |-> pos,
         factionId    |-> randomElement(g, 11, << "enemy_1", "enemy_2" >>),
         isDiscovered |-> FALSE,
         garrison     |-> generateGarrisonFrom(g, 12, difficulty),
         difficulty   |-> difficulty,
         rewards      |-> Resources((difficulty * 100) + randomInt(g, afterGarrison, 50, 200),
                                    (difficulty * 20) + randomInt(g, afterGarrison + 1, 10, 50),
                                    (difficulty * 15) + randomInt(g, afterGarrison + 2, 5, 30),
                                    (difficulty * 5) + randomInt(g, afterGarrison + 3, 0, 20))]

RECURSIVE campsLoop(_, _, _, _, _)
campsLoop(positions, i, count, towns, st) ==
    IF i > Len(positions) \/ Len(st.made) >= count THEN st
    ELSE IF tooClose(positions[i], towns, 5) \/ tooClose(positions[i], st.made, 4)
         THEN campsLoop(positions, i + 1, count, towns, st)
    ELSE CHOOSE out \in
            { campsLoop(positions, i + 1, count, towns, next) : next \in
                { [made |-> Append(st.made, createEnemyCampFrom(positions[i], st.rng)),
                   rng  |-> Drawn(st.rng, campDraws(st.rng))] } } : TRUE

\* generateEnemyCamps(tiles, count, rng, towns)
generateEnemyCamps(tiles, count, g, towns) ==
    CHOOSE out \in
        { campsLoop(shuffled.ret, 1, count, towns, [made |-> << >>, rng |-> shuffled.rng]) :
            shuffled \in { shuffle(findValidPositions(tiles, {"grass", "forest", "desert"}), g) } } : TRUE

resourceTypes == << "gold", "wood", "stone", "crystals" >>

\* Whether the node's type takes a second draw: on forest and mountain the
\* first is chance(0.7), and randomElement follows when it fails.
typeDraws(terrain, g) ==
    IF terrain \in {"forest", "mountain"} /\ ~chance(g, 1, 7) THEN 2 ELSE 1

resourceTypeOf(terrain, g) ==
    CASE terrain = "forest" ->
            IF chance(g, 1, 7) THEN "wood" ELSE randomElement(g, 2, resourceTypes)
      [] terrain = "mountain" ->
            IF chance(g, 1, 7) THEN "stone" ELSE randomElement(g, 2, resourceTypes)
      [] OTHER -> randomElement(g, 1, resourceTypes)

\* The node generateResourceNodes pushes at pos.
createResourceNode(pos, terrain, g) ==
    [id            |-> "resource_" \o randomId(g, typeDraws(terrain, g) + 1, 8),
     resourceType  |-> resourceTypeOf(terrain, g),
     position      |-> pos,
     amountPerTurn |-> randomInt(g, typeDraws(terrain, g) + 9, 5, 20),
     isOwned       |-> FALSE]

RECURSIVE nodesLoop(_, _, _, _, _, _)
nodesLoop(tiles, positions, i, count, others, st) ==
    IF i > Len(positions) \/ Len(st.made) >= count THEN st
    ELSE IF tooClose(positions[i], others, 3) \/ tooClose(positions[i], st.made, 3)
         THEN nodesLoop(tiles, positions, i + 1, count, others, st)
    ELSE CHOOSE out \in
            { nodesLoop(tiles, positions, i + 1, count, others, next) : next \in
                { [made |-> Append(st.made,
                                   createResourceNode(positions[i],
                                       tiles[positions[i].y + 1][positions[i].x + 1].terrain,
                                       st.rng)),
                   rng  |-> Drawn(st.rng,
                                  typeDraws(tiles[positions[i].y + 1][positions[i].x + 1].terrain,
                                            st.rng) + 9)] } } : TRUE

\* generateResourceNodes(tiles, count, rng, towns, camps)
generateResourceNodes(tiles, count, g, towns, camps) ==
    CHOOSE out \in
        { nodesLoop(tiles, shuffled.ret, 1, count, towns \o camps,
                    [made |-> << >>, rng |-> shuffled.rng]) :
            shuffled \in { shuffle(findValidPositions(tiles,
                               {"grass", "forest", "desert", "mountain"}), g) } } : TRUE

\* The encounter generateNeutralEncounters pushes at pos (nine draws).
createEncounter(pos, g) ==
    [id           |-> "encounter_" \o randomId(g, 1, 8),
     type         |-> "neutral_encounter",
     name         |-> randomElement(g, 9,
                      << "Ancient Shrine", "Wandering Merchant", "Lost Treasure", "Hermit's Hut",
                      "Mystic Well", "Abandoned Wagon" >>),
     position     |-> pos,
     factionId    |-> "neutral",
     isDiscovered |-> FALSE]

RECURSIVE encountersLoop(_, _, _, _, _)
encountersLoop(positions, i, count, others, st) ==
    IF i > Len(positions) \/ Len(st.made) >= count THEN st
    ELSE IF tooClose(positions[i], others, 3) \/ tooClose(positions[i], st.made, 3)
         THEN encountersLoop(positions, i + 1, count, others, st)
    ELSE CHOOSE out \in
            { encountersLoop(positions, i + 1, count, others, next) : next \in
                { [made |-> Append(st.made, createEncounter(positions[i], st.rng)),
                   rng  |-> Drawn(st.rng, 9)] } } : TRUE

\* generateNeutralEncounters(tiles, count, rng, towns, camps, resources)
generateNeutralEncounters(tiles, count, g, towns, camps, resources) ==
    CHOOSE out \in
        { encountersLoop(shuffled.ret, 1, count, towns \o camps \o resources,
                         [made |-> << >>, rng |-> shuffled.rng]) :
            shuffled \in { shuffle(findValidPositions(tiles, {"grass", "forest"}), g) } } : TRUE

Sign(n) == IF n > 0 THEN 1 ELSE IF n < 0 THEN -1 ELSE 0
Abs(n) == IF n < 0 THEN -n ELSE n
Clamp(n, top) == IF n < 0 THEN 0 ELSE IF n > top THEN top ELSE n

\* One step of the walk from current towards end, by the draw of g.
roadStep(current, end, g, width, height) ==
    LET dx == end.x - current.x
        dy == end.y - current.y
        alongX == IF chance(g, 1, 6)
                  THEN Abs(dx) > Abs(dy)
                  ELSE IF Abs(dx) <= Abs(dy) /\ dx # 0 THEN TRUE
                       ELSE dy = 0
    IN  IF alongX THEN Pos(Clamp(current.x + Sign(dx), width - 1), current.y)
        ELSE Pos(current.x, Clamp(current.y + Sign(dy), height - 1))

\* The tile under the walk: a road unless impassable or water.
paved(tile) ==
    IF tile.isPassable /\ tile.terrain # "water"
    THEN [tile EXCEPT !.terrain = "road", !.movementCost = TERRAIN_COSTS("road")]
    ELSE tile

\* The while loop of generateRoads for one pair of towns.
RECURSIVE roadWalk(_, _, _)
roadWalk(current, end, st) ==
    IF current = end THEN st
    ELSE CHOOSE out \in
            { roadWalk(roadStep(current, end, st.rng, Len(st.tiles[1]), Len(st.tiles)),
                       end, next) : next \in
                { [tiles |-> [st.tiles EXCEPT ![current.y + 1][current.x + 1] = paved(@)],
                   rng   |-> Drawn(st.rng, 1)] } } : TRUE

\* generateRoads(tiles, towns, rng) from the i-th town on.
RECURSIVE roadsFrom(_, _, _)
roadsFrom(towns, i, st) ==
    IF i >= Len(towns) THEN st
    ELSE CHOOSE out \in
            { roadsFrom(towns, i + 1, next) : next \in
                { roadWalk(towns[i].position, towns[i + 1].position, st) } } : TRUE

generateRoads(tiles, towns, g) == roadsFrom(towns, 1, [tiles |-> tiles, rng |-> g])

\* const rng = new SeededRandom(config.seed)
newGenerator(config) == SeededRandom(config.seed)

\* tile.pointOfInterest = poi, tile.resourceNode = node, for each in order.
RECURSIVE placeAll(_, _, _, _)
placeAll(tiles, things, i, asNode) ==
    IF i > Len(things) THEN tiles
    ELSE placeAll(IF asNode
                  THEN [tiles EXCEPT ![things[i].position.y + 1][things[i].position.x + 1]
                                          .resourceNode = things[i]]
                  ELSE [tiles EXCEPT ![things[i].position.y + 1][things[i].position.x + 1]
                                          .pointOfInterest = things[i]],
                  things, i + 1, asNode)

\* generateWorld(config): the world, and the generator as the call leaves it.
\* Each stage is computed once and handed to the next: the terrain, the
\* towns, the camps, the resource nodes, the encounters, the roads.
generateWorldFrom(config) ==
    CHOOSE out \in
      { (CHOOSE withTowns \in
        { (CHOOSE withCamps \in
          { (CHOOSE withNodes \in
            { (CHOOSE withEncounters \in
              { (CHOOSE withRoads \in
                { [world |-> [width            |-> config.width,
                              height           |-> config.height,
                              tiles            |-> roads.tiles,
                              pointsOfInterest |-> towns.made \o camps.made \o encounters.made,
                              resourceNodes    |-> nodes.made,
                              seed             |-> config.seed],
                   rng   |-> roads.rng] :
                    roads \in { generateRoads(
                                  placeAll(placeAll(tiles,
                                               towns.made \o camps.made \o encounters.made,
                                               1, FALSE),
                                           nodes.made, 1, TRUE),
                                  towns.made, encounters.rng) } } : TRUE) :
                  encounters \in { generateNeutralEncounters(tiles,
                                       config.numNeutralEncounters, nodes.rng,
                                       towns.made, camps.made, nodes.made) } } : TRUE) :
                nodes \in { generateResourceNodes(tiles, config.numResourceNodes,
                                camps.rng, towns.made, camps.made) } } : TRUE) :
              camps \in { generateEnemyCamps(tiles, config.numEnemyCamps,
                              towns.rng, towns.made) } } : TRUE) :
            towns \in { generateTowns(tiles, config.numTowns,
                                      Drawn(newGenerator(config), TerrainDraws)) } } : TRUE) :
          tiles \in { generateTerrain(config.width, config.height,
                                      newGenerator(config)) } } : TRUE

(***************************************************************************)
(* Construction of a session (createInitialHero, createInitialFactions).    *)
(***************************************************************************)
heroNames == << "Alaric", "Seraphina", "Magnus", "Elena", "Theron", "Lyra" >>

\* createInitialHero(factionId, position, rng) on generator g: the id (8
\* draws), the name (1) and the ids of the two stacks (8 each).
createInitialHero(factionId, position, g) ==
    [id                |-> "hero_" \o randomId(g, 1, 8),
     name              |-> randomElement(g, 9, heroNames),
     level             |-> 1,
     experience        |-> 0,
     experienceToNext  |-> 100,
     position          |-> position,
     movementPoints    |-> 20,
     maxMovementPoints |-> 20,
     crew              |-> << Unit("warrior", "unit_" \o randomId(g, 10, 8), 10),
                              Unit("archer", "unit_" \o randomId(g, 18, 8), 5) >>,
     bonuses           |-> [attackBonus |-> 0, defenseBonus |-> 0, movementBonus |-> 0,
                            moraleBonus |-> 0],
     factionId         |-> factionId]

\* The draws createInitialHero makes.
HeroDraws == 8 + 1 + 8 + 8

\* createInitialFactions(worldMap, rng) on generator g: the player's hero is
\* created first, the enemy's on the generator the first creation leaves.
createInitialFactions(world, g) ==
    LET pois        == world.pointsOfInterest
        playerTown  == FindIndex(pois, LAMBDA p : p.type = "town" /\ p.factionId = "player")
        enemyTown   == FindIndex(pois, LAMBDA p : p.type = "town" /\ p.factionId = "neutral")
        playerStart == IF playerTown # 0 THEN pois[playerTown].position ELSE Pos(10, 10)
        enemyStart  == IF enemyTown # 0 THEN pois[enemyTown].position ELSE Pos(50, 50)
    IN  << [id         |-> "player",
            resources  |-> [gold |-> 1000, wood |-> 200, stone |-> 100, crystals |-> 50],
            heroes     |-> << createInitialHero("player", playerStart, g) >>,
            ownedTowns |-> IF playerTown # 0 THEN << pois[playerTown].id >> ELSE << >>,
            isAI       |-> FALSE],
           [id         |-> "enemy_1",
            resources  |-> [gold |-> 800, wood |-> 150, stone |-> 80, crystals |-> 30],
            heroes     |-> << createInitialHero("enemy_1", enemyStart, Drawn(g, HeroDraws)) >>,
            ownedTowns |-> << >>,
            isAI       |-> TRUE] >>

\* The factions initGame makes for a configuration: createInitialFactions on the
\* world generated for it and a generator constructed on its seed.
InitialFactions(config) ==
    createInitialFactions(World(config), SeededRandom(seedrandom(config.seed)))

(***************************************************************************)
(* Queries.  Each takes the state it reads (get()) as arguments.            *)
(***************************************************************************)
RECURSIVE FlatHeroes(_, _)
FlatHeroes(fs, i) ==
    IF i > Len(fs) THEN << >> ELSE fs[i].heroes \o FlatHeroes(fs, i + 1)

\* factions.flatMap((f) => f.heroes)
AllHeroes(fs) == FlatHeroes(fs, 1)

NoHero == [id |-> Undefined, level |-> 0, experience |-> 0, experienceToNext |-> 0,
           position |-> Pos(-1, -1), movementPoints |-> 0, maxMovementPoints |-> 0,
           crew |-> << >>,
           bonuses |-> [attackBonus |-> 0, defenseBonus |-> 0, movementBonus |-> 0,
                        moraleBonus |-> 0],
           factionId |-> Undefined]

getHero(fs, heroId) ==
    LET hs == AllHeroes(fs)
        i  == FindIndex(hs, LAMBDA h : h.id = heroId)
    IN  IF i = 0 THEN NoHero ELSE hs[i]

\* The index in fs of the faction with this id, 0 when there is none.
getFaction(fs, factionId) == FindIndex(fs, LAMBDA f : f.id = factionId)

NoTile == [position |-> Pos(-1, -1), terrain |-> Undefined, movementCost |-> 0,
           isPassable |-> FALSE, pointOfInterest |-> NoPoi, resourceNode |-> NoNode]

getTileAt(world, position) ==
    IF \/ position.x < 0
       \/ position.x >= world.width
       \/ position.y < 0
       \/ position.y >= world.height
    THEN NoTile
    ELSE world.tiles[position.y + 1][position.x + 1]

Neighbors(p) ==
    << Pos(p.x + 1, p.y), Pos(p.x - 1, p.y), Pos(p.x, p.y + 1), Pos(p.x, p.y - 1) >>

\* The test under which a neighbour is queued: the tile exists, is passable,
\* and the accumulated cost stays within the movement points.
QueuesNeighbor(tile, newCost, movementPoints) ==
    /\ tile # NoTile
    /\ tile.isPassable
    /\ newCost <= movementPoints

\* A variant that forgets the cost accumulated so far.
newCost_tileOnly(current, tile) == tile.movementCost

\* The cost at which a neighbour is reached through the dequeued entry.
newCost(current, tile) == current.cost + tile.movementCost

\* The entries one dequeued position adds to the queue, in neighbour order.
RECURSIVE Pushes(_, _, _, _)
Pushes(world, hero, current, i) ==
    IF i > 4 THEN << >>
    ELSE LET neighbor == Neighbors(current.pos)[i]
             tile     == getTileAt(world, neighbor)
             cost     == newCost(current, tile)
         IN  (IF QueuesNeighbor(tile, cost, hero.movementPoints)
              THEN << [pos |-> neighbor, cost |-> cost] >>
              ELSE << >>) \o Pushes(world, hero, current, i + 1)

\* The place in the queue of the first entry whose position is not visited
\* yet, 0 when there is none: the loop shifts the entries before it off the
\* queue and passes over each (`continue`).
Unvisited(queue, visited) ==
    IF \E i \in 1..Len(queue) : queue[i].pos \notin visited
    THEN CHOOSE i \in 1..Len(queue) :
            /\ queue[i].pos \notin visited
            /\ \A j \in 1..(i - 1) : queue[j].pos \in visited
    ELSE 0

\* The while loop of getMovementRange: a first-in first-out queue, a position
\* is settled with the cost of the first entry dequeued for it.
RECURSIVE RangeLoop(_, _, _, _, _)
RangeLoop(world, hero, queue, visited, reachable) ==
    CHOOSE out \in
        { IF at = 0 THEN reachable
          ELSE IF queue[at].cost <= hero.movementPoints
               THEN RangeLoop(world, hero,
                              SubSeq(queue, at + 1, Len(queue))
                                  \o Pushes(world, hero, queue[at], 1),
                              visited \cup {queue[at].pos},
                              IF queue[at].pos # hero.position
                              THEN Append(reachable, queue[at].pos)
                              ELSE reachable)
               ELSE RangeLoop(world, hero, SubSeq(queue, at + 1, Len(queue)),
                              visited \cup {queue[at].pos}, reachable) :
            at \in { Unvisited(queue, visited) } } : TRUE

getMovementRange(world, fs, heroId) ==
    LET hero == getHero(fs, heroId)
    IN  IF hero = NoHero THEN << >>
        ELSE RangeLoop(world, hero, << [pos |-> hero.position, cost |-> 0] >>, {}, << >>)

\* A variant that accepts any passable tile of the map.
canMoveTo_anyPassable(world, fs, heroId, position) ==
    getTileAt(world, position).isPassable

\* range.some((pos) => pos.x === position.x && pos.y === position.y)
canMoveTo(world, fs, heroId, position) ==
    CHOOSE found \in
        { (\E i \in 1..Len(range) : range[i] = position) :
            range \in { getMovementRange(world, fs, heroId) } } : TRUE

(***************************************************************************)
(* The AI controller (AIController, executeAITurn).  Its state is a         *)
(* snapshot: the faction it plays, the world map and all factions.          *)
(* Army powers and win chances are doubles; a priority is written as the   *)
(* fraction [n, d] or, when that does not hold it, as the double.           *)
(***************************************************************************)
AIState(faction, world, allFactions) ==
    [faction |-> faction, worldMap |-> world, allFactions |-> allFactions]

\* AIController.getMovementRange: the passable tiles of the diamond of radius
\* movementPoints around the hero, row by row.  Movement points are held
\* doubled; with an odd value (a half point left) dx and dy are never whole
\* and no tile is found.
AIMovementRange(state, hero) ==
    IF hero.movementPoints % 2 # 0 THEN << >>
    ELSE LET mp   == hero.movementPoints \div 2
             side == (2 * mp) + 1
             cell(k) == [dx |-> ((k - 1) % side) - mp, dy |-> ((k - 1) \div side) - mp]
             spot(k) == Pos(hero.position.x + cell(k).dx, hero.position.y + cell(k).dy)
             kept == SelectSeq([k \in 1..(side * side) |-> k],
                        LAMBDA k : /\ Abs(cell(k).dx) + Abs(cell(k).dy) <= mp
                                   /\ getTileAt(state.worldMap, spot(k)).isPassable)
         IN  [i \in 1..Len(kept) |-> spot(kept[i])]

\* distance <= hero.movementPoints * 2, the points being held doubled.
isNearby(hero, enemyHero) ==
    manhattanDistance(hero.position, enemyHero.position) <= hero.movementPoints

\* findNearbyEnemies: the heroes of the other factions, in faction order.
RECURSIVE findNearbyEnemies(_, _, _)
findNearbyEnemies(state, hero, i) ==
    IF i > Len(state.allFactions) THEN << >>
    ELSE (IF state.allFactions[i].id = state.faction.id THEN << >>
          ELSE SelectSeq(state.allFactions[i].heroes, LAMBDA e : isNearby(hero, e)))
         \o findNearbyEnemies(state, hero, i + 1)

\* evaluatePosition
evaluatePosition(state, hero, pos) ==
    LET world   == state.worldMap
        me      == state.faction.id
        nodes   == SelectSeq(world.resourceNodes,
                       LAMBDA n : /\ manhattanDistance(pos, n.position) <= 3
                                  /\ (~n.isOwned \/ n.ownedBy # me))
        towns   == SelectSeq(world.pointsOfInterest,
                       LAMBDA p : /\ p.type = "town"
                                  /\ manhattanDistance(pos, p.position) <= 5
                                  /\ p.factionId # me)
        closer  == SelectSeq(findNearbyEnemies(state, hero, 1),
                       LAMBDA e : manhattanDistance(pos, e.position)
                                    < manhattanDistance(hero.position, e.position))
        owned   == SelectSeq(world.pointsOfInterest,
                       LAMBDA p : p.type = "town" /\ p.factionId = me)
        farFromHome == /\ Len(owned) > 0
                       /\ \A i \in 1..Len(owned) :
                              manhattanDistance(pos, owned[i].position) > 20
        value   == (20 * Len(nodes)) + (40 * Len(towns)) + (15 * Len(closer))
                     - (IF farFromHome THEN 10 ELSE 0)
    IN  IF ~getTileAt(world, pos).isPassable THEN -1
        ELSE IF value < 0 THEN 0 ELSE value

\* evaluateMoveActions
evaluateMoveActions(state, hero) ==
    LET range == SelectSeq(AIMovementRange(state, hero),
                     LAMBDA pos : evaluatePosition(state, hero, pos) > 0)
    IN  [i \in 1..Len(range) |->
            [type |-> "move", heroId |-> hero.id, target |-> range[i],
             priority |-> [n |-> evaluatePosition(state, hero, range[i]), d |-> 1]]]

\* (unit.stats.attack + unit.stats.defense) * unit.count
\*   * (unit.stats.hp / unit.stats.maxHp) of one stack, a double.
unitPower(unit) ==
    Product(Product(Sum(FromInt(unit.stats.attack), FromFrac(unit.stats.defense)),
                    FromInt(unit.count)),
            Quotient(FromFrac(unit.stats.hp), FromInt(unit.stats.maxHp)))

\* calculateArmyPower: crew.reduce((total, unit) => total + unitPower, 0) as
\* far as the i-th stack; the power of the army is the total at i = Len(crew).
RECURSIVE calculateArmyPower(_, _)
calculateArmyPower(crew, i) ==
    IF i = 0 THEN FromInt(0)
    ELSE Sum(calculateArmyPower(crew, i - 1), unitPower(crew[i]))

\* estimateBattleOutcome: attackerPower / (attackerPower + defenderPower), a
\* double; 1 for a powerless defender.
estimateBattleOutcome(attacker, defender) ==
    CHOOSE ratio \in
        { IF power[2].m = << >> THEN FromInt(1)
          ELSE Quotient(power[1], Sum(power[1], power[2])) :
            power \in { << calculateArmyPower(attacker.crew, Len(attacker.crew)),
                           calculateArmyPower(defender.crew, Len(defender.crew)) >> } } : TRUE

\* evaluateAttackActions: canReach and a win chance above 0.4, the double
\* nearest to 4 / 10; the priority is 50 + winChance * 50.
evaluateAttackActions(state, hero) ==
    CHOOSE actions \in
        { [i \in 1..Len(worth) |->
              [type |-> "attack", heroId |-> hero.id, target |-> worth[i].enemy.id,
               priority |-> Written(Sum(FromInt(50),
                                Product(worth[i].winChance, FromInt(50))))]] :
            worth \in
                { SelectSeq([i \in 1..Len(nearbyEnemies) |->
                                [enemy     |-> nearbyEnemies[i],
                                 canAttack |-> manhattanDistance(hero.position,
                                                   nearbyEnemies[i].position) * 2
                                                 <= hero.movementPoints,
                                 winChance |-> estimateBattleOutcome(hero, nearbyEnemies[i])]],
                            LAMBDA e : /\ e.canAttack
                                       /\ Ordered(e.winChance,
                                              Quotient(FromInt(4), FromInt(10))) = 1) :
                    nearbyEnemies \in { findNearbyEnemies(state, hero, 1) } } } : TRUE

\* The actions in the order getActions pushes them: per hero its moves, its
\* attacks and a wait.
RECURSIVE pushedActions(_, _)
pushedActions(state, i) ==
    IF i > Len(state.faction.heroes) THEN << >>
    ELSE evaluateMoveActions(state, state.faction.heroes[i])
         \o evaluateAttackActions(state, state.faction.heroes[i])
         \o << [type |-> "wait", heroId |-> state.faction.heroes[i].id,
                priority |-> [n |-> 0, d |-> 1]] >>
         \o pushedActions(state, i + 1)

\* b.priority - a.priority > 0: b goes before a.  The sign of the difference
\* of two doubles is the sign of their exact difference.
outranks(b, a) ==
    IF "d" \in DOMAIN b.priority /\ "d" \in DOMAIN a.priority
    THEN b.priority.n * a.priority.d > a.priority.n * b.priority.d
    ELSE Ordered(Value(b.priority), Value(a.priority)) = 1

\* actions.sort((a, b) => b.priority - a.priority): stable, highest first.
RECURSIVE sortByPriority(_)
sortByPriority(actions) ==
    IF actions = << >> THEN << >>
    ELSE LET rest == sortByPriority(Tail(actions))
             a    == Head(actions)
             \* a stays before every later action it ties with
             k    == IF \E i \in 1..Len(rest) : ~outranks(rest[i], a)
                     THEN CHOOSE i \in 1..Len(rest) :
                             /\ ~outranks(rest[i], a)
                             /\ \A j \in 1..(i - 1) : outranks(rest[j], a)
                     ELSE Len(rest) + 1
         IN  SubSeq(rest, 1, k - 1) \o << a >> \o SubSeq(rest, k, Len(rest))

getActions(state) == sortByPriority(pushedActions(state, 1))

NoAction == [type |-> "null"]

\* getBestAction
getBestAction(state) ==
    IF Len(getActions(state)) > 0 THEN getActions(state)[1] ELSE NoAction

\* executeAITurn: the calls it makes, in order.  moveHero is called with the
\* hero of the loop and the target of the action; what it returns is not read.
RECURSIVE heroCalls(_, _)
heroCalls(state, i) ==
    IF i > Len(state.faction.heroes) THEN << >>
    ELSE LET hero   == state.faction.heroes[i]
             action == getBestAction(state)
         IN  (IF hero.movementPoints > 0 /\ action.type = "move"
              THEN << [call |-> "moveHero", heroId |-> hero.id,
                       target |-> action.target, action |-> action] >>
              ELSE << >>)
             \o heroCalls(state, i + 1)

executeAITurn(state) ==
    heroCalls(state, 1) \o << [call |-> "setTimeout", callback |-> "endTurn", delay |-> 500] >>

(***************************************************************************)
(* The record of a call: which command ran and what it returned ("true",   *)
(* "false", "void", or "throw" when it raised).                             *)
(***************************************************************************)
Call(op, ret) == [op |-> op, ret |-> ret]

Init ==
    /\ gamePhase = "menu"
    /\ turn = 1
    /\ currentFaction = "player"
    /\ worldMap = NoGame
    /\ factions = << >>
    /\ pointsOfInterest = << >>
    /\ combatState = NoCombat
    /\ selectedHeroId = Undefined
    /\ timers = << >>
    /\ last = Call("create", "void")
    /\ rng = SeededRandom([stream |-> << 0 >>, of |-> Grain])
    /\ made = NoCalls
    /\ arrayHeld = << >>
    /\ rng2 = SeededRandom([stream |-> << 0 >>, of |-> Grain])

(***************************************************************************)
(* initGame: a fresh world and roster.  Pending continuations are not       *)
(* cancelled, and combatState is not written.  The world comes from         *)
(* generateWorld, which constructs a generator of its own; initGame then    *)
(* constructs a second generator on the same seed and hands it to           *)
(* createInitialFactions.                                                   *)
(***************************************************************************)
InitGameOver(configs) ==
    \E config \in configs :
        LET g  == SeededRandom(seedrandom(config.seed))
            fs == createInitialFactions(World(config), g)
        IN  /\ worldMap' = config
            /\ factions' = fs
            /\ pointsOfInterest' = World(config).pointsOfInterest
            /\ UNCHANGED combatState
            /\ turn' = 1
            /\ currentFaction' = "player"
            /\ gamePhase' = "world_map"
            /\ selectedHeroId' = IF Len(fs[1].heroes) > 0 THEN fs[1].heroes[1].id ELSE Undefined
            /\ timers' = timers
            /\ rng' = Drawn(g, 2 * HeroDraws)
            /\ UNCHANGED <<made, arrayHeld, rng2>>
            /\ last' = Call("initGame", "void")

\* initGame with any of the configurations.
InitGame == InitGameOver(GameConfigs)

\* initGame with the configuration of the map of two towns.
InitRoadGame == InitGameOver({Road})

\* initGame on the wold, issued once, from the menu.
StartWoldGame == gamePhase = "menu" /\ InitGameOver({Wold})

\* initGame on the map of two towns, issued once, from the menu.
StartRoadGame == gamePhase = "menu" /\ InitRoadGame

(***************************************************************************)
(* moveHero                                                                 *)
(***************************************************************************)
\* A variant that charges every tile the grass cost.
movementCost_grass(tile) == TERRAIN_COSTS("grass")

\* What a successful move takes from the hero's movement points.
movementCost(tile) == tile.movementCost

\* The hero record after the move (the body of the producer's if).
MovedHero(hero, targetPosition, tile) ==
    [hero EXCEPT !.position = targetPosition,
                 !.movementPoints = @ - movementCost(tile)]

\* The outcome of moveHero(heroId, targetPosition) on the state (world, fs):
\* the value returned and the roster committed.  A destination that carries a
\* point of interest makes the producer assign poi.isDiscovered on the frozen
\* tile read through get(): the assignment raises, nothing is committed.
moveHero(world, fs, heroId, targetPosition) ==
    LET hero == getHero(fs, heroId)
        tile == getTileAt(world, targetPosition)
        fi   == getFaction(fs, hero.factionId)
        hi   == IF fi = 0 THEN 0 ELSE FindIndex(fs[fi].heroes, LAMBDA h : h.id = heroId)
    IN  IF hero = NoHero THEN [ret |-> "false", factions |-> fs]
        ELSE IF ~canMoveTo(world, fs, heroId, targetPosition) THEN [ret |-> "false", factions |-> fs]
        ELSE IF tile = NoTile THEN [ret |-> "false", factions |-> fs]
        ELSE IF hi # 0 /\ fs[fi].heroes[hi].movementPoints >= movementCost(tile)
             THEN IF tile.pointOfInterest # NoPoi
                  THEN [ret |-> "throw", factions |-> fs]
                  ELSE [ret      |-> "true",
                        factions |-> [fs EXCEPT ![fi].heroes[hi] =
                                         MovedHero(@, targetPosition, tile)]]
             ELSE [ret |-> "true", factions |-> fs]

\* The ids of the heroes of a roster; those of one faction.
HeroIdsOf(fs) == { AllHeroes(fs)[i].id : i \in 1..Len(AllHeroes(fs)) }

HeroIdsIn(fs, factionId) ==
    { AllHeroes(fs)[i].id : i \in { j \in 1..Len(AllHeroes(fs)) :
                                        AllHeroes(fs)[j].factionId = factionId } }

\* The hero ids tried: every hero of the roster, and an id no hero has.
HeroIds == HeroIdsOf(factions) \cup {"invalid-id"}

\* The orders tried in a game, each a hero id and a target.
\* On the hills: a tile next to the town, the town's own tile and a position
\* outside every map.
\* On the wold: a grass tile and a forest tile from which the range covers
\* the map, the town's tile and a water tile.
\* On the map of two towns the player's hero is sent between the road tile
\* west of its town, the grass north of that tile and the town's tile.
Orders(config) ==
    CASE config = Hills ->
            HeroIds \X {Pos(3, 1), Pos(2, 1), Pos(1000, 1000)}
      [] config = Wold ->
            HeroIds \X {Pos(3, 2), Pos(2, 3), Pos(2, 1), Pos(3, 6)}
      [] config = Road ->
            (HeroIdsIn(factions, "player") \cup {"invalid-id"})
                \X {Pos(9, 1), Pos(9, 0), Pos(10, 1)}
      [] config = NoGame ->
            HeroIds \X {Pos(0, 0), Pos(1000, 1000)}

MoveHeroOver(orders) ==
    \E order \in orders :
        LET out == moveHero(World(worldMap), factions, order[1], order[2])
        IN  /\ factions' = out.factions
            /\ UNCHANGED <<rng, made, arrayHeld, rng2>>
            /\ last' = Call("moveHero", out.ret)
            /\ UNCHANGED <<gamePhase, turn, currentFaction, worldMap, pointsOfInterest, combatState,
                         selectedHeroId, timers>>

MoveHero == MoveHeroOver(Orders(worldMap))

\* The player's hero marched down the east side of the wold: to the grass
\* east of the forest, to the last grass tile before the water, and round the
\* water to the south edge.
MarchHero ==
    MoveHeroOver(HeroIdsIn(factions, "player") \X {Pos(3, 2), Pos(3, 5), Pos(1, 7)})

(***************************************************************************)
(* endTurn                                                                  *)
(***************************************************************************)
\* (currentIndex + 1) % factions.length, on 1-based indices; currentIndex is 0
\* when findIndex found nothing (-1 in the source).
nextIndex(currentIndex, n) == (currentIndex % n) + 1

\* A variant that pays every node to every faction.
collectsFrom_anyNode(node, faction) == TRUE

\* Whether a node pays into a faction's treasury.
collectsFrom(node, faction) == node.isOwned /\ node.ownedBy = faction.id

\* The inner loop over worldMap.resourceNodes for one faction.
RECURSIVE collectResources(_, _, _)
collectResources(faction, nodes, i) ==
    IF i > Len(nodes) THEN faction
    ELSE LET node == nodes[i]
         IN  collectResources(
                 IF collectsFrom(node, faction)
                 THEN [faction EXCEPT !.resources[node.resourceType] = @ + node.amountPerTurn]
                 ELSE faction,
                 nodes, i + 1)

\* A variant that adds the allowance to what is left.
resetMovement_adds(hero) ==
    [hero EXCEPT !.movementPoints = @ + hero.maxMovementPoints]

\* A variant that leaves the movement points as they are.
resetMovement_none(hero) == hero

resetMovement(hero) == [hero EXCEPT !.movementPoints = hero.maxMovementPoints]

\* A variant that never defers.
schedulesAI_never(fs, current) == FALSE

\* Whether endTurn defers another endTurn: the faction now current is an AI.
schedulesAI(fs, current) ==
    LET i == getFaction(fs, current)
    IN  i # 0 /\ fs[i].isAI

\* The whole of endTurn, run with `pending` continuations outstanding.  With an
\* empty roster nextFaction is undefined and reading its id raises inside the
\* producer: nothing is committed and the call does not reach the timer.
endTurn(pending, op) ==
    IF factions = << >>
    THEN /\ UNCHANGED game
         /\ timers' = pending
         /\ UNCHANGED <<rng, made, arrayHeld, rng2>>
         /\ last' = Call(op, "throw")
    ELSE LET n       == Len(factions)
             next    == nextIndex(getFaction(factions, currentFaction), n)
             wraps   == factions[next].id = "player"
             paid    == IF wraps
                        THEN [i \in 1..n |->
                                collectResources(factions[i], World(worldMap).resourceNodes, 1)]
                        ELSE factions
             fresh   == [paid EXCEPT ![next].heroes =
                            [h \in 1..Len(@) |-> resetMovement(@[h])]]
         IN  /\ turn' = IF wraps THEN turn + 1 ELSE turn
             /\ factions' = fresh
             /\ currentFaction' = fresh[next].id
             /\ selectedHeroId' = IF Len(fresh[next].heroes) > 0
                                  THEN fresh[next].heroes[1].id
                                  ELSE selectedHeroId
             /\ UNCHANGED <<gamePhase, worldMap, pointsOfInterest, combatState>>
             /\ timers' = IF schedulesAI(fresh, fresh[next].id)
                          THEN Append(pending, [by |-> fresh[next].id])
                          ELSE pending
             /\ UNCHANGED <<rng, made, arrayHeld, rng2>>
             /\ last' = Call(op, "void")

\* endTurn issued as a command (the End Turn button, the space bar, a caller).
EndTurn ==
    /\ turn < MaxTurn
    /\ Len(timers) < MaxTimers
    /\ endTurn(timers, "endTurn")

\* The oldest pending continuation fires: setTimeout's callback calls endTurn.
TimerFire ==
    /\ timers # << >>
    /\ endTurn(Tail(timers), "timer")

(***************************************************************************)
(* addResources / spendResources.  A Partial<Resources> argument is a       *)
(* function from the kinds it names to amounts.                             *)
(***************************************************************************)
\* A variant that refuses nothing.
canAfford_always(faction, resources) == TRUE

\* A variant that looks at the gold only.
canAfford_goldOnly(faction, resources) ==
    "gold" \notin DOMAIN resources \/ faction.resources.gold >= resources.gold

canAfford(faction, resources) ==
    \A k \in Kinds : k \notin DOMAIN resources \/ faction.resources[k] >= resources[k]

\* if (resources.k) draftFaction.resources.k -= resources.k, for each kind
Deducted(faction, resources) ==
    [faction EXCEPT !.resources =
        [k \in Kinds |-> IF k \in DOMAIN resources /\ resources[k] # 0
                         THEN @[k] - resources[k] ELSE @[k]]]

spendResources(fs, factionId, resources) ==
    LET fi == getFaction(fs, factionId)
    IN  IF fi = 0 THEN [ret |-> "false", factions |-> fs]
        ELSE IF ~canAfford(fs[fi], resources) THEN [ret |-> "false", factions |-> fs]
        ELSE [ret |-> "true", factions |-> [fs EXCEPT ![fi] = Deducted(@, resources)]]

addResources(fs, factionId, resources) ==
    LET fi == getFaction(fs, factionId)
    IN  IF fi = 0 THEN fs
        ELSE [fs EXCEPT ![fi].resources =
                [k \in Kinds |-> IF k \in DOMAIN resources /\ resources[k] # 0
                                 THEN @[k] + resources[k] ELSE @[k]]]

Partial(gold, wood, stone, crystals) ==
    LET all == [gold |-> gold, wood |-> wood, stone |-> stone, crystals |-> crystals]
    IN  [k \in {kk \in Kinds : all[kk] >= 0} |-> all[k]]

\* The requests tried; -1 leaves a kind out of the request.
Requests ==
    { Partial(400, -1, -1, -1),
      Partial(300, 500, -1, -1),
      Partial(-1, 150, 100, -1),
      Partial(-1, -1, -1, 40),
      Partial(0, -1, -1, -1),
      Partial(-1, -1, -1, -1) }

Gifts == { Partial(400, -1, -1, -1), Partial(0, -1, -1, -1) }

FactionIds == {"player", "enemy_1", "neutral"}

SpendResourcesOver(ids, requests) ==
    \E factionId \in ids, resources \in requests :
        LET out == spendResources(factions, factionId, resources)
        IN  /\ factions' = out.factions
            /\ UNCHANGED <<rng, made, arrayHeld, rng2>>
            /\ last' = Call("spendResources", out.ret)
            /\ UNCHANGED <<gamePhase, turn, currentFaction, worldMap, pointsOfInterest, combatState,
                         selectedHeroId, timers>>

SpendResources == SpendResourcesOver(FactionIds, Requests)

\* The player pays: once more wood than it holds, once all its stone.
SpendByPlayer ==
    SpendResourcesOver({"player"}, {Partial(300, 500, -1, -1), Partial(-1, 150, 100, -1)})

\* addResources is not issued when it would lift a treasury entry above this.
MaxTreasury == 1400

AddResourcesOver(ids, gifts) ==
    \E factionId \in ids, resources \in gifts :
        LET fi == getFaction(factions, factionId)
        IN  /\ fi # 0 =>
                \A k \in DOMAIN resources : factions[fi].resources[k] + resources[k] <= MaxTreasury
            /\ factions' = addResources(factions, factionId, resources)
            /\ UNCHANGED <<rng, made, arrayHeld, rng2>>
            /\ last' = Call("addResources", "void")
            /\ UNCHANGED <<gamePhase, turn, currentFaction, worldMap, pointsOfInterest, combatState,
                         selectedHeroId, timers>>

AddResources == AddResourcesOver(FactionIds, Gifts)

\* 400 gold given to the player.
GiftToPlayer == AddResourcesOver({"player"}, {Partial(400, -1, -1, -1)})

(***************************************************************************)
(* selectHero, enterTown, leaveTown, recruitUnit.                           *)
(***************************************************************************)
SelectHero ==
    \E heroId \in HeroIds \cup {Undefined} :
        /\ selectedHeroId' = heroId
        /\ UNCHANGED <<rng, made, arrayHeld, rng2>>
        /\ last' = Call("selectHero", "void")
        /\ UNCHANGED <<gamePhase, turn, currentFaction, worldMap, factions, pointsOfInterest,
                       combatState, timers>>

TownIds == { pointsOfInterest[i].id : i \in 1..Len(pointsOfInterest) } \cup {"nowhere"}

EnterTown ==
    \E townId \in TownIds :
        LET town == FindIndex(pointsOfInterest, LAMBDA poi : poi.id = townId /\ poi.type = "town")
        IN  /\ gamePhase' = IF town # 0 THEN "town" ELSE gamePhase
            /\ UNCHANGED <<rng, made, arrayHeld, rng2>>
            /\ last' = Call("enterTown", "void")
            /\ UNCHANGED <<turn, currentFaction, worldMap, factions, pointsOfInterest,
                           combatState, selectedHeroId, timers>>

LeaveTown ==
    /\ gamePhase' = "world_map"
    /\ UNCHANGED <<rng, made, arrayHeld, rng2>>
    /\ last' = Call("leaveTown", "void")
    /\ UNCHANGED <<turn, currentFaction, worldMap, factions, pointsOfInterest, combatState,
                   selectedHeroId, timers>>

\* A variant that does not look at the pool's availability.
lacksAvailability_never(recruitOption, count) == FALSE

\* recruitOption.available < count
lacksAvailability(recruitOption, count) == recruitOption.available < count

totalCost(recruitOption, count) ==
    Resources(recruitOption.cost.gold * count, recruitOption.cost.wood * count,
              recruitOption.cost.stone * count, recruitOption.cost.crystals * count)

\* The crew after the recruits joined: the first stack of the type grows, or a
\* new stack made from the template is appended under the id `stamp`.
Recruited(crew, unitType, count, stamp) ==
    LET existingUnit == FindIndex(crew, LAMBDA u : u.type = unitType)
    IN  IF existingUnit # 0
        THEN [crew EXCEPT ![existingUnit].count = @ + count]
        ELSE Append(crew, Unit(unitType, stamp, count))

\* The outcome of recruitUnit(townId, unitType, count) on the state
\* (fs, pois, selected): the value returned, the roster and the points of
\* interest committed.  stamp is the id unit_<Date.now()> a new stack would get.
recruitUnit(fs, pois, selected, townId, unitType, count, stamp) ==
    LET hero    == IF selected # Undefined THEN getHero(fs, selected) ELSE NoHero
        faction == IF hero # NoHero THEN getFaction(fs, hero.factionId) ELSE 0
        town    == FindIndex(pois, LAMBDA poi : poi.id = townId)
        refused == [ret |-> "false", factions |-> fs, pointsOfInterest |-> pois]
    IN  IF hero = NoHero \/ faction = 0 THEN refused
        ELSE IF town = 0 \/ pois[town].type # "town" THEN refused
        ELSE LET pool          == pois[town].recruitPool
                 recruitOption == FindIndex(pool, LAMBDA r : r.unitType = unitType)
             IN  IF recruitOption = 0 THEN refused
                 ELSE IF lacksAvailability(pool[recruitOption], count) THEN refused
                 ELSE LET spent == spendResources(fs, fs[faction].id,
                                                  totalCost(pool[recruitOption], count))
                          hi    == FindIndex(fs[faction].heroes, LAMBDA h : h.id = hero.id)
                      IN  IF spent.ret = "false" THEN refused
                          ELSE [ret      |-> "true",
                                factions |-> [spent.factions EXCEPT ![faction].heroes[hi].crew =
                                                 Recruited(@, unitType, count, stamp)],
                                pointsOfInterest |->
                                    [pois EXCEPT ![town].recruitPool[recruitOption].available =
                                                     @ - count]]

\* The ids of the points of interest of a type that a faction holds.
PoiIds(type, factionId) ==
    { pointsOfInterest[i].id :
        i \in { j \in 1..Len(pointsOfInterest) :
                  /\ pointsOfInterest[j].type = type
                  /\ pointsOfInterest[j].factionId = factionId } }

\* The towns asked: the start town, a point of interest that is no town, and
\* an id that names nothing.
RecruitTowns == PoiIds("town", "player") \cup PoiIds("enemy_camp", "enemy_1") \cup {"nowhere"}

\* A type the initial crew has, one it has not, and one no pool offers.
RecruitTypes == {"warrior", "cavalry", "dragon"}

\* The counts asked for; 3 exceeds the cavalry two of the towns offer.
Counts == {2, 3}

\* The ids Date.now() gives a new stack: two calls may fall in the same
\* millisecond or not.
Stamps == {"unit_1001", "unit_1002"}

RecruitUnitOver(towns, types, counts, stamps) ==
    \E townId \in towns, unitType \in types, count \in counts, stamp \in stamps :
        LET out == recruitUnit(factions, pointsOfInterest, selectedHeroId,
                               townId, unitType, count, stamp)
        IN  /\ factions' = out.factions
            /\ pointsOfInterest' = out.pointsOfInterest
            /\ UNCHANGED <<rng, made, arrayHeld, rng2>>
            /\ last' = Call("recruitUnit", out.ret)
            /\ UNCHANGED <<gamePhase, turn, currentFaction, worldMap, combatState,
                           selectedHeroId, timers>>

RecruitUnit == RecruitUnitOver(RecruitTowns, RecruitTypes, Counts, Stamps)

\* Three warriors hired in the player's town.
RecruitWarriors == RecruitUnitOver(PoiIds("town", "player"), {"warrior"}, {3}, {"unit_1001"})

\* recruitUnit asked for no creature, or for one fewer; not issued when the
\* refund would lift a treasury entry above MaxTreasury.
RecruitLevy ==
    \E townId \in PoiIds("town", "player"), unitType \in {"warrior", "cavalry"},
       count \in {0, -1} :
        LET out == recruitUnit(factions, pointsOfInterest, selectedHeroId,
                               townId, unitType, count, "unit_1001")
        IN  /\ \A f \in 1..Len(out.factions) : \A k \in Kinds :
                  out.factions[f].resources[k] <= MaxTreasury
            /\ factions' = out.factions
            /\ pointsOfInterest' = out.pointsOfInterest
            /\ UNCHANGED <<rng, made, arrayHeld, rng2>>
            /\ last' = Call("recruitUnit", out.ret)
            /\ UNCHANGED <<gamePhase, turn, currentFaction, worldMap, combatState,
                           selectedHeroId, timers>>

(***************************************************************************)
(* startCombat                                                              *)
(***************************************************************************)
\* unit -> { ...unit, combatPosition, hasActed: false, isDefending: false,
\* statusEffects: [] }
CombatUnit(unit, px, py) ==
    [id             |-> unit.id,
     type           |-> unit.type,
     name           |-> unit.name,
     stats          |-> unit.stats,
     count          |-> unit.count,
     experience     |-> unit.experience,
     combatPosition |-> Pos(px, py),
     hasActed       |-> FALSE,
     isDefending    |-> FALSE,
     statusEffects  |-> << >>]

\* A variant that orders by rising speed.
comesBefore_slowest(a, b) == a.stats.speed < b.stats.speed

\* The comparator of the sort, (a, b) => b.stats.speed - a.stats.speed: a is
\* placed before b when the difference is negative.
comesBefore(a, b) == b.stats.speed - a.stats.speed < 0

\* One element placed into a sorted sequence behind every element it does not
\* come before.
RECURSIVE Insert(_, _)
Insert(sorted, u) ==
    IF sorted = << >> THEN << u >>
    ELSE IF comesBefore(u, sorted[Len(sorted)])
         THEN Append(Insert(SubSeq(sorted, 1, Len(sorted) - 1), u), sorted[Len(sorted)])
         ELSE Append(sorted, u)

\* Array.prototype.sort with that comparator: a stable sort.
RECURSIVE Sort(_)
Sort(units) ==
    IF units = << >> THEN << >>
    ELSE Insert(Sort(SubSeq(units, 1, Len(units) - 1)), units[Len(units)])

\* The defender argument is a hero id, [hero |-> id], or a point of interest,
\* [poi |-> record] (typeof defenderId === 'string' tells them apart).
IsHeroId(defenderId) == "hero" \in DOMAIN defenderId

\* The combat state startCombat(attackerId, defenderId) commits, NoCombat when
\* it returns without committing.
startCombat(fs, attackerId, defenderId) ==
    LET attacker      == getHero(fs, attackerId)
        defender      == IF IsHeroId(defenderId) THEN getHero(fs, defenderId.hero)
                         ELSE defenderId.poi
        defenderUnits == IF IsHeroId(defenderId) THEN defender.crew
                         ELSE IF "garrison" \in DOMAIN defender THEN defender.garrison
                         ELSE << >>
        attackerCombatUnits ==
            [i \in 1..Len(attacker.crew) |-> CombatUnit(attacker.crew[i], 0, i - 1)]
        defenderCombatUnits ==
            [i \in 1..Len(defenderUnits) |-> CombatUnit(defenderUnits[i], 7, i - 1)]
    IN  IF attacker = NoHero THEN NoCombat
        ELSE IF IsHeroId(defenderId) /\ defender = NoHero THEN NoCombat
        ELSE [isActive         |-> TRUE,
              attacker         |-> attacker,
              defender         |-> defender,
              attackerUnits    |-> attackerCombatUnits,
              defenderUnits    |-> defenderCombatUnits,
              currentTurn      |-> "attacker",
              currentUnitIndex |-> 0,
              turnOrder        |-> Sort(attackerCombatUnits \o defenderCombatUnits),
              combatLog        |-> << >>,
              gridWidth        |-> 8,
              gridHeight       |-> 6]

\* The defenders named: every hero id tried elsewhere and every point of
\* interest of the world.
Defenders ==
    { [hero |-> h] : h \in HeroIds }
      \cup { [poi |-> pointsOfInterest[i]] : i \in 1..Len(pointsOfInterest) }

\* startCombat called with an attacker and a defender out of the given sets.
StartCombatOver(attackers, defenders) ==
    \E attackerId \in attackers, defenderId \in defenders :
        LET combat == startCombat(factions, attackerId, defenderId)
        IN  /\ combatState' = IF combat = NoCombat THEN combatState ELSE combat
            /\ gamePhase' = IF combat = NoCombat THEN gamePhase ELSE "combat"
            /\ UNCHANGED <<rng, made, arrayHeld, rng2>>
            /\ last' = Call("startCombat", "void")
            /\ UNCHANGED <<turn, currentFaction, worldMap, factions, pointsOfInterest,
                           selectedHeroId, timers>>

\* Any hero id against any hero id or point of interest.
StartCombat == StartCombatOver(HeroIds, Defenders)

\* Any hero id against any hero id or point of interest, as long as no hero
\* has won a battle.
StartFirstCombat ==
    /\ \A h \in 1..Len(AllHeroes(factions)) : AllHeroes(factions)[h].experience = 0
    /\ StartCombat

\* The enemy's hero attacks the player's hero, as long as no hero has won a
\* battle.
StartCounterDuel ==
    /\ \A h \in 1..Len(AllHeroes(factions)) : AllHeroes(factions)[h].experience = 0
    /\ StartCombatOver(HeroIdsIn(factions, "enemy_1"),
                       { [hero |-> h] : h \in HeroIdsIn(factions, "player") })

\* The player's hero attacks the enemy's hero.
StartDuel ==
    StartCombatOver(HeroIdsIn(factions, "player"),
                    { [hero |-> h] : h \in HeroIdsIn(factions, "enemy_1") })

(***************************************************************************)
(* executeCombatAction.  The units of turnOrder are the objects of the two  *)
(* rosters when startCombat commits them; the producer reaches the acting   *)
(* unit and the target through the rosters, so what it writes to them lands *)
(* in the rosters' copies and the entries of turnOrder stay as they were.   *)
(***************************************************************************)
\* Math.max(1, sourceUnit.stats.attack * sourceUnit.count - targetUnit.stats.defense)
damage(sourceUnit, targetUnit) ==
    LET raw == Minus(Whole(sourceUnit.stats.attack * sourceUnit.count),
                     targetUnit.stats.defense)
    IN  IF raw.num > raw.den THEN raw ELSE Whole(1)

\* A variant that counts a started creature as killed.
unitsKilled_ceiling(dmg, targetUnit) ==
    -Floor(Scaled(dmg, -1, UNIT_TEMPLATES(targetUnit.type).stats.maxHp))

\* Math.floor(damage / UNIT_TEMPLATES[targetUnit.type].stats.maxHp)
unitsKilled(dmg, targetUnit) ==
    Floor(Scaled(dmg, 1, UNIT_TEMPLATES(targetUnit.type).stats.maxHp))

\* The target after the hit.
Hit(targetUnit, dmg) ==
    [targetUnit EXCEPT !.stats.hp = Minus(@, dmg),
                       !.count = IF @ - unitsKilled(dmg, targetUnit) > 0
                                 THEN @ - unitsKilled(dmg, targetUnit) ELSE 0]

\* targetUnit.count <= 0 || targetUnit.stats.hp <= 0
isDead(unit) == unit.count <= 0 \/ unit.stats.hp.num <= 0

\* The log entry of a hit.  turn is turnOrder.indexOf(sourceUnit): the acting
\* unit was reached through a roster, no entry of turnOrder is that object,
\* so it is -1.  The message is kept as its three parts; the timestamp
\* (Date.now()) is left out.
LogEntry(sourceUnit, dmg, targetUnit) ==
    [turn |-> -1, source |-> sourceUnit.name, damage |-> dmg, target |-> targetUnit.name]

RemoveAt(seq, i) == SubSeq(seq, 1, i - 1) \o SubSeq(seq, i + 1, Len(seq))

\* A variant that never advances.
advance_stay(index, n) == index

\* (currentUnitIndex + 1) % turnOrder.length
advance(index, n) == (index + 1) % n

\* The tail of the producer: the index moves on and, when every entry of
\* turnOrder has acted, the entries of turnOrder are reset, unless a roster is
\* empty.
NextUnit(combat) ==
    IF Len(combat.attackerUnits) = 0 \/ Len(combat.defenderUnits) = 0 THEN combat
    ELSE LET allActed == \A i \in 1..Len(combat.turnOrder) : combat.turnOrder[i].hasActed
         IN  [combat EXCEPT
                !.currentUnitIndex = advance(@, Len(combat.turnOrder)),
                !.turnOrder = IF allActed
                              THEN [i \in 1..Len(@) |->
                                      [@[i] EXCEPT !.hasActed = FALSE, !.isDefending = FALSE]]
                              ELSE @]

\* The combat state after executeCombatAction(action) on an active combat.
\* all is [...attackerUnits, ...defenderUnits]; find returns the first unit
\* with the id.
executeCombatAction(combat, action) ==
    LET na     == Len(combat.attackerUnits)
        all    == combat.attackerUnits \o combat.defenderUnits
        si     == FindIndex(all, LAMBDA u : u.id = action.sourceUnit)
        ti     == IF action.type = "attack" /\ "targetUnit" \in DOMAIN action
                  THEN FindIndex(all, LAMBDA u : u.id = action.targetUnit)
                  ELSE 0
        dmg    == damage(all[si], all[ti])
        acted  ==
            CASE action.type = "move" /\ "targetPosition" \in DOMAIN action ->
                     [all EXCEPT ![si].combatPosition = action.targetPosition]
              [] action.type = "attack" /\ ti # 0 ->
                     [all EXCEPT ![ti] = Hit(@, dmg)]
              [] action.type = "defend" ->
                     [all EXCEPT ![si].isDefending = TRUE,
                                 ![si].stats.defense = Scaled(@, 3, 2)]
              [] OTHER -> all
        marked == [acted EXCEPT ![si].hasActed = TRUE]
        killed == IF ti # 0 /\ isDead(marked[ti]) THEN ti ELSE 0
        \* the roster the dead target is spliced from
        attackerUnits == IF killed # 0 /\ killed <= na
                         THEN RemoveAt(SubSeq(marked, 1, na), killed)
                         ELSE SubSeq(marked, 1, na)
        defenderUnits == IF killed > na
                         THEN RemoveAt(SubSeq(marked, na + 1, Len(marked)), killed - na)
                         ELSE SubSeq(marked, na + 1, Len(marked))
    IN  IF si = 0 THEN combat
        ELSE IF all[si].hasActed THEN combat
        ELSE NextUnit([combat EXCEPT
                         !.attackerUnits = attackerUnits,
                         !.defenderUnits = defenderUnits,
                         !.combatLog = IF ti # 0
                                       THEN Append(@, LogEntry(all[si], dmg, all[ti]))
                                       ELSE @])

\* The id of stack k of the hero initGame gives faction f (1 the player's, 2
\* the enemy's) on the map of two towns.
StackId(f, k) == InitialFactions(Road)[f].heroes[1].crew[k].id

\* The unit ids named in actions: the four stacks of the two heroes, and an
\* id no unit has.
UnitIds == { StackId(f, k) : f \in 1..2, k \in 1..2 } \cup {"nobody"}

\* The actions tried (a CombatAction names its target unit or position only
\* where it has one).  A move is tried for the player's archers, to one cell
\* of the grid; defend is tried for the enemy's warriors and the player's
\* archers; an attack names a target or none.
Actions ==
    { [type |-> "attack", sourceUnit |-> src, targetUnit |-> t] : <<src, t>> \in UnitIds \X UnitIds }
      \cup { [type |-> type, sourceUnit |-> src] :
                <<type, src>> \in {"attack", "wait"} \X UnitIds }
      \cup { [type |-> "defend", sourceUnit |-> src] :
                src \in {StackId(2, 1), StackId(1, 2), "nobody"} }
      \cup { [type |-> "move", sourceUnit |-> src, targetPosition |-> Pos(3, 2)] :
                src \in {StackId(1, 2), "nobody"} }

ExecuteCombatAction ==
    \E action \in Actions :
        /\ combatState' = IF combatState = NoCombat THEN combatState
                          ELSE executeCombatAction(combatState, action)
        /\ UNCHANGED <<rng, made, arrayHeld, rng2>>
        /\ last' = Call("executeCombatAction", "void")
        /\ UNCHANGED <<gamePhase, turn, currentFaction, worldMap, factions, pointsOfInterest,
                       selectedHeroId, timers>>

(***************************************************************************)
(* runAutoBattle.  Math.random() yields any number of [0, 1) on each call,  *)
(* so each target drawn is any unit of the roster drawn from; the battle    *)
(* has one outcome for each way the draws can fall.                         *)
(***************************************************************************)
maxRounds == 20

\* enemies[Math.floor(Math.random() * enemies.length)]
RandomTargets(enemies) == { enemies[i] : i \in 1..Len(enemies) }

\* One of the two for loops of a round, from its i-th unit on: the units of
\* `units` (the roster as it was when the loop began) attack in order, each a
\* unit drawn from `enemies` (the other roster as it was when the round, or
\* its second half, began).  states are the combat states the loop can have
\* reached before its i-th unit.
RECURSIVE Volley(_, _, _, _)
Volley(states, units, enemies, i) ==
    IF i > Len(units) \/ Len(enemies) = 0 THEN states
    ELSE Volley({ executeCombatAction(combat,
                      [type |-> "attack", sourceUnit |-> units[i].id,
                       targetUnit |-> target.id]) :
                    combat \in states, target \in RandomTargets(enemies) },
                units, enemies, i + 1)

\* The passes of the while loop that can be made from a combat state with
\* both rosters standing: the state after the attackers' loop and the state
\* the pass leaves (the same when the defenders are wiped out).
Round(combat) ==
    UNION { { [combatAfterAttack |-> combatAfterAttack, combat |-> after] :
                after \in IF Len(combatAfterAttack.defenderUnits) = 0
                          THEN {combatAfterAttack}
                          ELSE Volley({combatAfterAttack}, combatAfterAttack.defenderUnits,
                                      combatAfterAttack.attackerUnits, 1) } :
            combatAfterAttack \in
                Volley({combat}, combat.attackerUnits, combat.defenderUnits, 1) }

\* Both rosters hold a unit: the while loop goes on.
BothSidesStand(combat) ==
    combat # NoCombat /\ Len(combat.attackerUnits) > 0 /\ Len(combat.defenderUnits) > 0

\* The loop left: the combat state and what is left of maxRounds.
Left(states, left) == { [combat |-> combat, maxRounds |-> left] : combat \in states }

\* The while loop from its head.  states are the combat states it can be in
\* with `left` rounds to go; the value is every way it can be left.  A pass
\* ends the loop when the attackers have wiped the defenders out, and counts
\* down otherwise.  (When the passes lead from the states with both rosters
\* standing back to the same states, so does every pass still to come: the
\* loop is left through the break after any of them, or when the rounds are
\* used up.)
RECURSIVE While(_, _)
While(states, left) ==
    IF left <= 0 THEN Left(states, 0)
    ELSE UNION {
            Left(states \ on, left) \cup
            UNION {
                UNION {
                    IF next = on
                    THEN UNION { Left(broke, k) : k \in 1..left } \cup Left(next, 0)
                    ELSE Left(broke, left) \cup While(next, left - 1) :
                      broke \in { { p.combat : p \in
                                      { q \in passes :
                                          Len(q.combatAfterAttack.defenderUnits) = 0 } } },
                      next  \in { { p.combat : p \in
                                      { q \in passes :
                                          Len(q.combatAfterAttack.defenderUnits) > 0 } } } } :
                  passes \in { UNION { Round(combat) : combat \in on } } } :
              on \in { { combat \in states : BothSidesStand(combat) } } }

\* The result built from the combat state the loop leaves.
Outcome(finalCombat) ==
    LET winner == IF Len(finalCombat.attackerUnits) > 0 THEN "attacker" ELSE "defender"
    IN  [winner           |-> winner,
         experienceGained |-> IF winner = "attacker" THEN 50 ELSE 0,
         resourcesLooted  |-> IF winner = "attacker"
                              THEN Resources(100, 20, 10, 5)
                              ELSE Resources(0, 0, 0, 0)]

\* The outcomes of runAutoBattle() on an active combat: the combat state
\* left, what is left of maxRounds and the result returned.
runAutoBattle(combat) ==
    { [combat    |-> out.combat,
       maxRounds |-> out.maxRounds,
       result    |-> Outcome(out.combat)] : out \in While({combat}, maxRounds) }

RunAutoBattle ==
    \E out \in IF combatState = NoCombat
               THEN { [combat |-> combatState, result |-> [winner |-> "null"]] }
               ELSE runAutoBattle(combatState) :
        /\ combatState' = out.combat
        /\ UNCHANGED <<rng, made, arrayHeld, rng2>>
        /\ last' = Call("runAutoBattle", out.result.winner)
        /\ UNCHANGED <<gamePhase, turn, currentFaction, worldMap, factions,
                       pointsOfInterest, selectedHeroId, timers>>

(***************************************************************************)
(* endCombat                                                                *)
(***************************************************************************)
\* A variant that rewards whoever won.
rewards_always(result) == TRUE

\* Whether the result is rewarded.
rewards(result) == result.winner = "attacker"

\* The survivor as a stack of the hero's crew.
Survivor(cu) ==
    [id |-> cu.id, type |-> cu.type, name |-> cu.name, stats |-> cu.stats,
     count |-> cu.count, experience |-> cu.experience]

\* A variant that leaves the hero's army as it was.
Crew_kept(attacker, combat) == attacker.crew

\* The hero's army after a win: the surviving attacker stacks.
Crew(attacker, combat) ==
    [i \in 1..Len(combat.attackerUnits) |-> Survivor(combat.attackerUnits[i])]

\* The attacking hero after a win: experience, level-up, then the crew.
Rewarded(attacker, combat, result) ==
    LET gained  == [attacker EXCEPT !.experience = @ + result.experienceGained]
        leveled == IF gained.experience >= gained.experienceToNext
                   THEN [gained EXCEPT
                            !.level = @ + 1,
                            !.experience = @ - gained.experienceToNext,
                            !.experienceToNext = (@ * 3) \div 2,
                            !.bonuses.attackBonus = @ + 1,
                            !.bonuses.defenseBonus = @ + 1]
                   ELSE gained
    IN  [leveled EXCEPT !.crew = Crew(attacker, combat)]

\* The index in fs of the first faction with a hero of this id, 0 when none.
FactionOfHero(fs, heroId) ==
    IF \E f \in 1..Len(fs) : \E h \in 1..Len(fs[f].heroes) : fs[f].heroes[h].id = heroId
    THEN CHOOSE f \in 1..Len(fs) :
            /\ \E h \in 1..Len(fs[f].heroes) : fs[f].heroes[h].id = heroId
            /\ \A g \in 1..(f - 1) : \A h \in 1..Len(fs[g].heroes) :
                  fs[g].heroes[h].id # heroId
    ELSE 0

\* The hero endCombat looks up in the factions: the attacker of the combat.
rewardedId(combat) == combat.attacker.id

\* The outcome of endCombat(result): the roster, combat state and phase
\* committed.
endCombat(fs, combat, phase, result) ==
    LET fi == FactionOfHero(fs, rewardedId(combat))
        hi == IF fi = 0 THEN 0
              ELSE FindIndex(fs[fi].heroes, LAMBDA h : h.id = rewardedId(combat))
        \* draft.factions.find((f) => f.id === attacker.factionId)
        li == IF fi = 0 THEN 0 ELSE getFaction(fs, fs[fi].heroes[hi].factionId)
        won    == [fs EXCEPT ![fi].heroes[hi] = Rewarded(@, combat, result)]
        looted == IF li = 0 THEN won
                  ELSE [won EXCEPT ![li].resources =
                           [k \in Kinds |-> @[k] + result.resourcesLooted[k]]]
    IN  IF combat = NoCombat
        THEN [factions |-> fs, combatState |-> combat, gamePhase |-> phase]
        ELSE [factions    |-> IF fi # 0 /\ rewards(result) THEN looted ELSE fs,
              combatState |-> NoCombat,
              gamePhase   |-> "world_map"]

CombatResult(winner, experienceGained, resourcesLooted) ==
    [winner |-> winner, experienceGained |-> experienceGained,
     resourcesLooted |-> resourcesLooted]

\* The results passed: what runAutoBattle returns for either winner, and an
\* attacker's win worth a whole level.
Results ==
    { CombatResult("attacker", 50, Resources(100, 20, 10, 5)),
      CombatResult("attacker", 100, Resources(100, 20, 10, 5)),
      CombatResult("defender", 0, Resources(0, 0, 0, 0)) }

EndCombatOver(results) ==
    \E result \in results :
        LET out == endCombat(factions, combatState, gamePhase, result)
        IN  /\ \A f \in 1..Len(factions) : \A k \in Kinds :
                  factions[f].resources[k] + result.resourcesLooted[k] <= MaxTreasury
            /\ factions' = out.factions
            /\ combatState' = out.combatState
            /\ gamePhase' = out.gamePhase
            /\ UNCHANGED <<rng, made, arrayHeld, rng2>>
            /\ last' = Call("endCombat", "void")
            /\ UNCHANGED <<turn, currentFaction, worldMap, pointsOfInterest, selectedHeroId,
                           timers>>

EndCombat == EndCombatOver(Results)

\* A battle closed with the result runAutoBattle returns for either winner.
EndCombatAsFought ==
    EndCombatOver({ CombatResult("attacker", 50, Resources(100, 20, 10, 5)),
                    CombatResult("defender", 0, Resources(0, 0, 0, 0)) })

(***************************************************************************)
(* A caller of the generator: it builds one from a seed, makes an array and *)
(* shuffles it; a second generator, built on the same seed, is handed the   *)
(* same array after the first has shuffled it.                              *)
(***************************************************************************)
\* The arrays shuffled: empty, one element, distinct elements, repeated ones.
Arrays ==
    { << >>, << "a" >>, << "a", "b", "c" >>, << "a", "b", "a", "c" >>,
      << "a", "b", "c", "d", "e" >> }

\* new SeededRandom(seed), the first thing the caller does.
Construct ==
    \E seed \in DrawSeeds :
        /\ last.op = "create"
        /\ rng' = SeededRandom(seed)
        /\ made' = NoCalls
        /\ last' = Call("SeededRandom", "void")
        /\ UNCHANGED <<game, timers, arrayHeld, rng2>>

\* new SeededRandom(seed) once more, on the seed rng was constructed on.
Construct2 ==
    /\ rng2' = SeededRandom([stream |-> rng.stream, of |-> rng.of])
    /\ made' = NoCalls
    /\ last' = Call("SeededRandom", "void")
    /\ UNCHANGED <<game, timers, rng, arrayHeld>>

\* The caller makes the array it will hand to shuffle.
NewArray ==
    \E elements \in Arrays :
        /\ arrayHeld' = elements
        /\ made' = NoCalls
        /\ last' = Call("Array", "void")
        /\ UNCHANGED <<game, timers, rng, rng2>>

\* The record of one shuffle: the generator it ran on, as it was, the array
\* handed in, as it was, and the array returned.
Shuffled(g, elements, out) ==
    [op |-> "shuffle", from |-> g, arg |-> elements, ret |-> out.ret]

\* rng.shuffle(array)
Shuffle ==
    /\ made' = [first |-> Shuffled(rng, arrayHeld, shuffle(arrayHeld, rng)), second |-> NoCall]
    /\ arrayHeld' = shuffle(arrayHeld, rng).array
    /\ rng' = shuffle(arrayHeld, rng).rng
    /\ last' = Call("shuffle", "value")
    /\ UNCHANGED <<game, timers, rng2>>

\* rng2.shuffle(array), after rng.shuffle(array): the same array is handed to
\* the second generator.
Shuffle2 ==
    /\ made.first.op = "shuffle"
    /\ made.second = NoCall
    /\ made' = [made EXCEPT !.second = Shuffled(rng2, arrayHeld, shuffle(arrayHeld, rng2))]
    /\ arrayHeld' = shuffle(arrayHeld, rng2).array
    /\ rng2' = shuffle(arrayHeld, rng2).rng
    /\ last' = Call("shuffle", "value")
    /\ UNCHANGED <<game, timers, rng>>

\* rng2.random()
Random2 ==
    /\ rng2' = Drawn(rng2, 1)
    /\ made' = NoCalls
    /\ last' = Call("random", "value")
    /\ UNCHANGED <<game, timers, rng, arrayHeld>>

\* A method of the generator that returns a value and makes `draws` draws.
Method(op, draws) ==
    /\ rng' = Drawn(rng, draws)
    /\ made' = NoCalls
    /\ last' = Call(op, "value")
    /\ UNCHANGED <<game, timers, arrayHeld, rng2>>

\* random()
Random == Method("random", 1)

\* randomInt(min, max): one draw whatever the bounds.
RandomInt == Method("randomInt", 1)

\* randomFloat(min, max): one draw whatever the bounds.
RandomFloat == Method("randomFloat", 1)

\* randomElement(array): randomInt(0, array.length), also for an empty array.
DrawElement == Method("randomElement", 1)

\* chance(probability): one draw.
Chance == Method("chance", 1)

\* randomId(length): one draw for each character; 8 characters when no length
\* is given.
RandomId == \E length \in {0, 1, 8} : Method("randomId", length)

\* gaussian(mean, stddev): u1 and u2 are drawn; the value is not computed.
Gaussian == Method("gaussian", 2)

\* pickMultiple(array, count): the draws of shuffle(array).
PickMultiple ==
    \E count \in {0, 2, 9} :
        /\ rng' = pickMultiple(arrayHeld, count, rng).rng
        /\ made' = NoCalls
        /\ last' = Call("pickMultiple", "value")
        /\ UNCHANGED <<game, timers, arrayHeld, rng2>>

\* The states the controller is handed: a world, its factions, and the AI
\* faction's heroes anywhere on passable ground with none, one, one and a half
\* or ten movement points; a second hero may ride with the first.
AIHeroes(world, hero, points) ==
    { [hero EXCEPT !.position = Pos(c - 1, r - 1), !.movementPoints = mp] :
        <<c, r, mp>> \in
          { crm \in (1..world.width) \X (1..world.height) \X points :
              world.tiles[crm[2]][crm[1]].isPassable } }

\* The AI faction with its hero where moveHero can have put it: on the tile
\* it was created on or on a passable tile without a point of interest.
AILone(config) ==
    LET world == World(config)
        fs    == InitialFactions(config)
        enemy == fs[2].heroes[1]
        with(heroes) == [fs EXCEPT ![2].heroes = heroes]
    IN  { AIState(with(<< e >>)[2], world, with(<< e >>)) :
            e \in { h \in AIHeroes(world, enemy, {0, 2, 3, 20}) :
                      \/ h.position = enemy.position
                      \/ getTileAt(world, h.position).pointOfInterest = NoPoi } }

\* The AI faction with two heroes on different tiles, the second as
\* createInitialHero makes it on the generator the first two creations leave.
AIPair(config) ==
    LET world  == World(config)
        fs     == InitialFactions(config)
        enemy  == fs[2].heroes[1]
        second == createInitialHero("enemy_1", enemy.position,
                                    Drawn(SeededRandom(seedrandom(config.seed)), 2 * HeroDraws))
        with(heroes) == [fs EXCEPT ![2].heroes = heroes]
    IN  { AIState(with(<< ef[1], ef[2] >>)[2], world, with(<< ef[1], ef[2] >>)) :
            ef \in { p \in AIHeroes(world, enemy, {2, 20})
                             \X AIHeroes(world, second, {2, 20}) :
                       p[1].position # p[2].position } }

\* One hero on the map of two towns, two heroes on the hills.
AIStates == AILone(Road) \cup AIPair(Hills)

\* executeAITurn(faction, worldMap, allFactions, moveHero, endTurn).  The
\* store is reached only through the two callbacks, which are recorded.
ExecuteAITurn ==
    /\ made = NoCalls
    /\ \E state \in AIStates :
        made' = [first  |-> [op |-> "executeAITurn", state |-> state,
                             calls |-> executeAITurn(state)],
                 second |-> NoCall]
    /\ UNCHANGED <<game, timers, rng, arrayHeld, rng2>>
    /\ last' = Call("executeAITurn", "void")

\* The map sizes asked for: width and height.
Sizes == { << 16, 6 >>, << 16, 3 >>, << 12, 4 >>, << 2, 2 >> }

\* The configurations generateWorld is called with.
WorldGenConfig(seed, size, numTowns) ==
    [width                |-> size[1],
     height               |-> size[2],
     seed                 |-> seed,
     numTowns             |-> numTowns,
     numEnemyCamps        |-> 2,
     numResourceNodes     |-> 2,
     numNeutralEncounters |-> 1]

Configs ==
    { WorldGenConfig(seed, size, numTowns) :
        seed \in WorldSeeds, size \in Sizes, numTowns \in {1, 2, 6} }

\* A call of generateWorld as recorded: the configuration and the world
\* returned.
Generated(config, out) ==
    [op |-> "generateWorld", config |-> config, world |-> out.world]

\* generateWorld(config)
GenerateWorld ==
    /\ made = NoCalls
    /\ \E config \in Configs :
        /\ made' = [first |-> Generated(config, generateWorldFrom(config)), second |-> NoCall]
        /\ rng' = generateWorldFrom(config).rng
    /\ UNCHANGED game
    /\ UNCHANGED <<timers, arrayHeld, rng2>>
    /\ last' = Call("generateWorld", "world")

\* The towns generateRoads is handed on a terrain: two of its valid positions,
\* at least 8 apart as generateTowns places them, the first the player's.
TownPairs(tiles, g) ==
    LET valid == findValidPositions(tiles, {"grass", "desert"})
    IN  { << createTownFrom(valid[i], g, TRUE), createTownFrom(valid[j], g, FALSE) >> :
            << i, j >> \in { ij \in (1..Len(valid)) \X (1..Len(valid)) :
                                manhattanDistance(valid[ij[1]], valid[ij[2]]) >= 8 } }

\* generateRoads(tiles, towns, rng) on a terrain with its towns placed.
GenerateRoads ==
    /\ made = NoCalls
    /\ \E size \in { << 16, 3 >>, << 12, 4 >>, << 10, 6 >> }, seed \in WorldSeeds, k \in 0..1 :
        \E towns \in TownPairs(generateTerrain(size[1], size[2], SeededRandom(seed)),
                                SeededRandom(seed)) :
            LET tiles == placeAll(generateTerrain(size[1], size[2], SeededRandom(seed)),
                                  towns, 1, FALSE)
                g     == Drawn(SeededRandom(seed), k)
            IN  /\ made' = [first  |-> [op    |-> "generateRoads",
                                        tiles |-> tiles,
                                        towns |-> towns,
                                        rng   |-> g,
                                        out   |-> generateRoads(tiles, towns, g).tiles],
                            second |-> NoCall]
                /\ rng' = generateRoads(tiles, towns, g).rng
    /\ UNCHANGED game
    /\ UNCHANGED <<timers, arrayHeld, rng2>>
    /\ last' = Call("generateRoads", "void")

(***************************************************************************)
(* Specifications.                                                          *)
(***************************************************************************)
\* Turns and movement.
Next ==
    \/ InitGame
    \/ MoveHero
    \/ EndTurn
    \/ TimerFire

Spec == Init /\ [][Next]_vars

\* Treasuries.
NextEconomy ==
    \/ InitGame
    \/ SpendResources
    \/ AddResources

SpecEconomy == Init /\ [][NextEconomy]_vars

\* Towns: selection and recruitment.
NextTown ==
    \/ InitGame
    \/ SelectHero
    \/ RecruitUnit

SpecTown == Init /\ [][NextTown]_vars

\* Battles.
NextCombat ==
    \/ InitGame
    \/ StartCombat
    \/ EnterTown
    \/ LeaveTown

SpecCombat == Init /\ [][NextCombat]_vars

\* One battle, action by action.
NextBattle ==
    \/ InitRoadGame
    \/ StartDuel
    \/ ExecuteCombatAction

SpecBattle == Init /\ [][NextBattle]_vars

\* Battles of the enemy's hero against the player's, action by action, and
\* closed.
NextGuard ==
    \/ StartRoadGame
    \/ StartCounterDuel
    \/ ExecuteCombatAction
    \/ EndCombatAsFought

SpecGuard == Init /\ [][NextGuard]_vars

\* Battles of any hero against any defender, fought by single actions or by
\* runAutoBattle, and closed.
NextAftermath ==
    \/ StartRoadGame
    \/ StartFirstCombat
    \/ ExecuteCombatAction
    \/ RunAutoBattle
    \/ EndCombatAsFought

SpecAftermath == Init /\ [][NextAftermath]_vars

\* One battle fought to its end and closed.
NextWar ==
    \/ InitGame
    \/ StartDuel
    \/ RunAutoBattle
    \/ EndCombat

SpecWar == Init /\ [][NextWar]_vars

\* Everything that moves resources: gifts, payments, recruitment, the
\* income of a new turn and the loot of a battle.
NextTreasury ==
    \/ StartRoadGame
    \/ GiftToPlayer
    \/ SpendByPlayer
    \/ RecruitWarriors
    \/ EndTurn
    \/ StartDuel
    \/ EndCombatAsFought

SpecTreasury == Init /\ [][NextTreasury]_vars

\* Armies: recruitment and the survivors of battles.
NextMuster ==
    \/ StartRoadGame
    \/ RecruitLevy
    \/ StartDuel
    \/ RunAutoBattle
    \/ EndCombatAsFought

SpecMuster == Init /\ [][NextMuster]_vars

\* The seeded generator and its callers.
NextRandom ==
    \/ Construct
    \/ Construct2
    \/ NewArray
    \/ Shuffle
    \/ Shuffle2
    \/ Random2
    \/ Random
    \/ RandomInt
    \/ RandomFloat
    \/ DrawElement
    \/ Chance
    \/ RandomId
    \/ Gaussian
    \/ PickMultiple

SpecRandom == Init /\ [][NextRandom]_vars

\* The world generator.
NextWorlds ==
    \/ GenerateWorld

SpecWorlds == Init /\ [][NextWorlds]_vars

\* Turns and movement on the wold.
NextMarch ==
    \/ StartWoldGame
    \/ MarchHero
    \/ EndTurn
    \/ TimerFire

SpecMarch == Init /\ [][NextMarch]_vars

\* Road carving between the towns of a terrain.
NextRoads ==
    \/ GenerateRoads

SpecRoads == Init /\ [][NextRoads]_vars

\* The AI controller on the states it may be handed.
NextAI ==
    \/ ExecuteAITurn

SpecAI == Init /\ [][NextAI]_vars

\* Turns and movement, with the timer queue served: a pending setTimeout
\* callback is run by the event loop once its delay has passed.
LiveSpec == Init /\ [][Next]_vars /\ WF_vars(TimerFire)

(***************************************************************************)
(* Reference notions the properties are stated with.                        *)
(***************************************************************************)
InBounds(world, p) ==
    p.x >= 0 /\ p.x < world.width /\ p.y >= 0 /\ p.y < world.height

PassableAt(world, p) ==
    InBounds(world, p) /\ world.tiles[p.y + 1][p.x + 1].isPassable

PassablePositions(world) ==
    { p \in { Pos(c - 1, r - 1) : <<c, r>> \in (1..world.width) \X (1..world.height) } :
        PassableAt(world, p) }

Unreached == TERRAIN_COSTS("water")

Least(S) == CHOOSE m \in S : \A o \in S : m <= o

\* One round of relaxation of the path costs from `from`: entering tile p
\* costs p's movement cost, the origin itself costs nothing.
Relax(world, from, dist) ==
    [p \in DOMAIN dist |->
        IF p = from THEN 0
        ELSE Least({dist[p]} \cup
                   { dist[q] + world.tiles[p.y + 1][p.x + 1].movementCost :
                       q \in { qq \in { Neighbors(p)[k] : k \in 1..4 } \cap DOMAIN dist :
                                 dist[qq] < Unreached } })]

RECURSIVE Settle(_, _, _)
Settle(world, from, dist) ==
    LET next == Relax(world, from, dist)
    IN  IF next = dist THEN dist ELSE Settle(world, from, next)

\* The least summed tile cost of a 4-connected path of passable tiles from
\* `from` to each passable position (Unreached when there is no path).
LeastCost(world, from) ==
    Settle(world, from,
           [p \in PassablePositions(world) \cup {from} |-> IF p = from THEN 0 ELSE Unreached])

\* LeastCost from every passable origin of the generated worlds, as a table.
LeastCosts ==
    [config \in GameConfigs |->
        [from \in PassablePositions(World(config)) |-> LeastCost(World(config), from)]]

\* LeastCost on the world of a game configuration.
LeastCostOn(config, from) ==
    IF config \in GameConfigs /\ from \in PassablePositions(World(config))
    THEN LeastCosts[config][from]
    ELSE LeastCost(World(config), from)

\* The positions other than the origin some path reaches within the budget.
WithinBudget(world, from, budget) ==
    LET least == LeastCost(world, from)
    IN  { p \in PassablePositions(world) \ {from} : least[p] <= budget }

RangeSet(world, fs, heroId) ==
    LET range == getMovementRange(world, fs, heroId)
    IN  { range[i] : i \in 1..Len(range) }

RECURSIVE SumOf(_, _)
SumOf(f, S) ==
    IF S = {} THEN 0
    ELSE LET e == CHOOSE e \in S : TRUE IN f[e] + SumOf(f, S \ {e})

\* What the nodes a faction owns yield per turn in one kind.
Income(world, factionId, kind) ==
    LET nodes == world.resourceNodes
        mine  == { j \in 1..Len(nodes) : /\ nodes[j].isOwned
                                         /\ nodes[j].ownedBy = factionId
                                         /\ nodes[j].resourceType = kind }
    IN  SumOf([j \in mine |-> nodes[j].amountPerTurn], mine)

\* The roster position after the current faction's, the first after the last.
Follows(fs, current) ==
    LET ci == CHOOSE i \in 1..Len(fs) : fs[i].id = current
    IN  IF ci = Len(fs) THEN 1 ELSE ci + 1

\* The step is a completed endTurn, as a command or from a continuation.
EndTurnStep == last'.op \in {"endTurn", "timer"} /\ last'.ret = "void"

IsAI(fs, current) == \E i \in 1..Len(fs) : fs[i].id = current /\ fs[i].isAI

(***************************************************************************)
(* Properties.                                                              *)
(***************************************************************************)
\* C1: spendResources is all-or-nothing.  When the faction exists and holds at
\* least the requested amount of every kind the request names, the call
\* returns true and takes exactly the requested amounts from that faction,
\* every other faction untouched; otherwise it returns false and changes
\* nothing.  A spendResources step touches nothing but the roster.
SpendIsAllOrNothing ==
    /\ [](\A f \in FactionIds, r \in Requests :
            LET out     == spendResources(factions, f, r)
                covered == \E i \in 1..Len(factions) :
                              /\ factions[i].id = f
                              /\ \A k \in DOMAIN r : factions[i].resources[k] >= r[k]
            IN  IF covered
                THEN /\ out.ret = "true"
                     /\ Len(out.factions) = Len(factions)
                     /\ \A i \in 1..Len(factions) :
                          out.factions[i] =
                            IF factions[i].id = f
                            THEN [factions[i] EXCEPT !.resources =
                                    [k \in Kinds |-> @[k] - (IF k \in DOMAIN r THEN r[k] ELSE 0)]]
                            ELSE factions[i]
                ELSE out = [ret |-> "false", factions |-> factions])
    /\ [][last'.op = "spendResources" =>
            /\ UNCHANGED <<gamePhase, turn, currentFaction, worldMap, pointsOfInterest, combatState,
                         selectedHeroId, timers>>
            /\ last'.ret = "false" => factions' = factions]_vars

\* A spend that went through: the player paid 400 gold out of 1000.
SpendWitness ==
    /\ last = Call("spendResources", "true")
    /\ factions[1].resources.gold = 600
    /\ factions[2].resources.gold = 800

\* C2: moveHero to a position outside getMovementRange returns false and
\* changes nothing.
MoveOutOfRangeRefused ==
    /\ [](\A order \in Orders(worldMap) :
            order[2] \notin RangeSet(World(worldMap), factions, order[1]) =>
                moveHero(World(worldMap), factions, order[1], order[2])
                    = [ret |-> "false", factions |-> factions])
    /\ [][last' = Call("moveHero", "false") => UNCHANGED <<game, timers>>]_vars

\* A refused move of a game under way: the player's hero has already moved.
MoveRefusedWitness ==
    /\ last = Call("moveHero", "false")
    /\ worldMap = Road
    /\ gamePhase = "world_map"
    /\ getHero(factions, "hero_rzc2yvcs").movementPoints < 20
    /\ RangeSet(World(worldMap), factions, "hero_rzc2yvcs") # {}

\* C3: a moveHero that returns true put the hero on the target, took exactly
\* the target tile's cost from its movement points, and left the position and
\* movement points of every other hero as they were.
MoveSucceeds ==
    \A order \in Orders(worldMap) :
        LET heroId == order[1]
            t      == order[2]
            out    == moveHero(World(worldMap), factions, heroId, t)
            before == getHero(factions, heroId)
            after  == getHero(out.factions, heroId)
        IN  out.ret = "true" =>
              /\ after.position = t
              /\ after.movementPoints =
                    before.movementPoints
                      - World(worldMap).tiles[t.y + 1][t.x + 1].movementCost
              /\ \A o \in HeroIdsOf(factions) \ {heroId} :
                    /\ getHero(out.factions, o).position = getHero(factions, o).position
                    /\ getHero(out.factions, o).movementPoints
                          = getHero(factions, o).movementPoints

\* On the wold the player's hero stepped onto grass and then onto a forest
\* tile: one point and two points spent.
MoveSucceedsWitness ==
    /\ last = Call("moveHero", "true")
    /\ worldMap = Wold
    /\ getHero(factions, "hero_ai4i38zw").position = Pos(2, 3)
    /\ getHero(factions, "hero_ai4i38zw").movementPoints = 14

\* C4: every position getMovementRange returns is on the map, passable, not
\* the hero's own position, listed once, and the end of a path of passable
\* tiles whose summed cost is within the hero's movement points (costs are
\* counted in halves, so a road tile is half a point).
RangeIsLegal ==
    \A heroId \in HeroIdsOf(factions) :
        LET range == getMovementRange(World(worldMap), factions, heroId)
            hero  == getHero(factions, heroId)
            least == LeastCostOn(worldMap, hero.position)
        IN  \A i \in 1..Len(range) :
              /\ InBounds(World(worldMap), range[i])
              /\ PassableAt(World(worldMap), range[i])
              /\ range[i] # hero.position
              /\ \A j \in 1..Len(range) : j # i => range[j] # range[i]
              /\ least[range[i]] <= hero.movementPoints

\* A hero with half a movement point left standing on the road: the road
\* tiles east and west of it, and neither of the grass tiles north and south,
\* are in its range.
RangeHalfPointWitness ==
    /\ worldMap = Road
    /\ getHero(factions, "hero_rzc2yvcs").position = Pos(9, 1)
    /\ getHero(factions, "hero_rzc2yvcs").movementPoints = 1
    /\ getMovementRange(World(worldMap), factions, "hero_rzc2yvcs") = << Pos(10, 1), Pos(8, 1) >>

\* C5: getMovementRange returns every position a path within the hero's
\* movement points reaches (the result of a least-cost search).
RangeIsComplete ==
    \A heroId \in HeroIdsOf(factions) :
        RangeSet(World(worldMap), factions, heroId)
            = WithinBudget(World(worldMap), getHero(factions, heroId).position,
                           getHero(factions, heroId).movementPoints)

\* C6: every hero's movement points stay between 0 and its allowance.
MovementPointsBounded ==
    \A i \in 1..Len(AllHeroes(factions)) :
        /\ AllHeroes(factions)[i].movementPoints >= 0
        /\ AllHeroes(factions)[i].movementPoints <= AllHeroes(factions)[i].maxMovementPoints

\* A hero that has spent its last movement point on a move.
MovementSpentWitness ==
    /\ last = Call("moveHero", "true")
    /\ worldMap = Road
    /\ getHero(factions, "hero_rzc2yvcs").movementPoints = 0
    /\ getHero(factions, "hero_g8pbupcz").movementPoints = 20

\* C7: endTurn makes the faction after the current one in roster order (the
\* first after the last) the current faction, restores the movement points of
\* each of that faction's heroes to the hero's allowance, selects that
\* faction's first hero, and leaves the position and movement points of the
\* other factions' heroes as they were.
EndTurnAdvances ==
    [][EndTurnStep =>
        LET nx == Follows(factions, currentFaction)
        IN  /\ currentFaction' = factions[nx].id
            /\ Len(factions') = Len(factions)
            /\ \A i \in 1..Len(factions) : Len(factions'[i].heroes) = Len(factions[i].heroes)
            /\ \A h \in 1..Len(factions[nx].heroes) :
                  /\ factions'[nx].heroes[h].movementPoints
                        = factions[nx].heroes[h].maxMovementPoints
                  /\ factions'[nx].heroes[h].position = factions[nx].heroes[h].position
            /\ selectedHeroId' = factions[nx].heroes[1].id
            /\ \A i \in 1..Len(factions) : i # nx =>
                  \A h \in 1..Len(factions[i].heroes) :
                      /\ factions'[i].heroes[h].position = factions[i].heroes[h].position
                      /\ factions'[i].heroes[h].movementPoints
                            = factions[i].heroes[h].movementPoints]_vars

\* The turn came back to the player from the enemy: the player's hero, which
\* had moved onto the road and spent points there, is restored where it stands
\* and selected.
EndTurnAdvancesWitness ==
    /\ last = Call("timer", "void")
    /\ currentFaction = "player"
    /\ selectedHeroId = "hero_rzc2yvcs"
    /\ turn = 2
    /\ worldMap = Road
    /\ getHero(factions, "hero_rzc2yvcs").position = Pos(9, 1)
    /\ getHero(factions, "hero_rzc2yvcs").movementPoints = 20
    /\ getHero(factions, "hero_g8pbupcz").movementPoints = 20

\* C8: endTurn raises the turn counter by one exactly when the faction about
\* to act is the player, and then pays every faction, per kind, the sum of
\* amountPerTurn over the nodes that are owned and owned by it; an endTurn that
\* does not wrap leaves the counter and every treasury as they were.
EndTurnCollects ==
    [][EndTurnStep =>
        LET nx    == Follows(factions, currentFaction)
            wraps == factions[nx].id = "player"
        IN  IF wraps
            THEN /\ turn' = turn + 1
                 /\ \A i \in 1..Len(factions) : \A k \in Kinds :
                       factions'[i].resources[k] =
                          factions[i].resources[k] + Income(World(worldMap), factions[i].id, k)
            ELSE /\ turn' = turn
                 /\ \A i \in 1..Len(factions) :
                       factions'[i].resources = factions[i].resources]_vars

\* The roster wrapped once on the map of two towns: its two nodes, a wood node
\* of 19 and a crystal node of 11 per turn, are owned by nobody (the generator
\* creates every node unowned and no command captures one) and paid nothing.
EndTurnCollectsWitness ==
    /\ last.op \in {"endTurn", "timer"}
    /\ worldMap = Road
    /\ Len(World(worldMap).resourceNodes) = 2
    /\ turn = 2
    /\ factions[1].resources = [gold |-> 1000, wood |-> 200, stone |-> 100, crystals |-> 50]
    /\ factions[2].resources = [gold |-> 800, wood |-> 150, stone |-> 80, crystals |-> 30]

\* C9: an endTurn that makes an AI faction current schedules one continuation
\* for it; and once nothing but continuations run, the game settles with the
\* human faction current and no continuation pending.
AITurnIsHandedBack ==
    /\ [][EndTurnStep /\ IsAI(factions', currentFaction') =>
            /\ Len(timers') = Len(timers) + (IF last'.op = "timer" THEN 0 ELSE 1)
            /\ timers'[Len(timers')] = [by |-> currentFaction']]_vars
    /\ (<>[][last'.op = "timer"]_vars)
          => <>[](timers = << >> /\ ~IsAI(factions, currentFaction))

\* The continuation of the enemy's turn has run and handed the turn back.
AITurnHandedBackWitness ==
    /\ last = Call("timer", "void")
    /\ timers = << >>
    /\ currentFaction = "player"
    /\ turn = 2
    /\ worldMap = Hills

\* C10: a continuation that fires ends the turn of the AI faction that
\* scheduled it, never the player's.
TimerEndsOnlyItsOwnTurn ==
    [][last'.op = "timer" =>
        /\ currentFaction = Head(timers).by
        /\ currentFaction # "player"]_vars

\* The creatures of one type in a crew, over all its stacks.
TotalOfType(crew, unitType) ==
    LET stacks == { i \in 1..Len(crew) : crew[i].type = unitType }
    IN  SumOf([i \in stacks |-> crew[i].count], stacks)

\* C11: recruitUnit is atomic.  It returns false and changes nothing when no
\* hero is selected, the id names no town, the pool has no entry for the type,
\* the entry offers fewer than count, or the hero's faction cannot pay
\* cost x count; otherwise it returns true and, together, the treasury drops
\* by cost x count in each kind, the entry's availability drops by count, and
\* the selected hero's creatures of the type rise by count (the existing stack
\* grown, or one new stack appended), nothing else in the roster or the pools
\* moving.  A recruitUnit step touches nothing but the roster and the pools.
RecruitIsAtomic ==
    /\ [](\A townId \in RecruitTowns, unitType \in RecruitTypes, count \in Counts,
             stamp \in Stamps :
            LET out     == recruitUnit(factions, pointsOfInterest, selectedHeroId,
                                       townId, unitType, count, stamp)
                heroes  == { <<f, h>> \in (1..Len(factions)) \X (1..2) :
                               /\ h <= Len(factions[f].heroes)
                               /\ factions[f].heroes[h].id = selectedHeroId }
                towns   == { t \in 1..Len(pointsOfInterest) :
                               /\ pointsOfInterest[t].id = townId
                               /\ pointsOfInterest[t].type = "town" }
                offers  == { <<t, r>> \in towns \X (1..5) :
                               /\ r <= Len(pointsOfInterest[t].recruitPool)
                               /\ pointsOfInterest[t].recruitPool[r].unitType = unitType }
                blocked ==
                    \/ heroes = {}
                    \/ offers = {}
                    \/ \E o \in offers :
                          pointsOfInterest[o[1]].recruitPool[o[2]].available < count
                    \/ \E o \in offers, fh \in heroes, k \in Kinds :
                          factions[fh[1]].resources[k]
                            < pointsOfInterest[o[1]].recruitPool[o[2]].cost[k] * count
            IN  IF blocked
                THEN out = [ret |-> "false", factions |-> factions,
                            pointsOfInterest |-> pointsOfInterest]
                ELSE /\ out.ret = "true"
                     /\ \A o \in offers, fh \in heroes :
                          LET option == pointsOfInterest[o[1]].recruitPool[o[2]]
                              before == factions[fh[1]].heroes[fh[2]].crew
                              after  == out.factions[fh[1]].heroes[fh[2]].crew
                          IN  /\ \A k \in Kinds :
                                    out.factions[fh[1]].resources[k]
                                      = factions[fh[1]].resources[k] - option.cost[k] * count
                              /\ out.pointsOfInterest =
                                    [pointsOfInterest EXCEPT
                                        ![o[1]].recruitPool[o[2]].available = @ - count]
                              /\ TotalOfType(after, unitType)
                                    = TotalOfType(before, unitType) + count
                              /\ \/ /\ Len(after) = Len(before)
                                    /\ \E i \in 1..Len(before) :
                                          after = [before EXCEPT ![i].count = @ + count]
                                 \/ /\ Len(after) = Len(before) + 1
                                    /\ SubSeq(after, 1, Len(before)) = before
                                    /\ after[Len(after)].type = unitType
                                    /\ after[Len(after)].count = count
                              /\ \A f \in 1..Len(factions) : f # fh[1] =>
                                    out.factions[f] = factions[f])
    /\ [][last'.op = "recruitUnit" =>
            /\ UNCHANGED <<gamePhase, turn, currentFaction, worldMap, combatState,
                           selectedHeroId, timers>>
            /\ last'.ret = "false" => UNCHANGED <<factions, pointsOfInterest>>]_vars

\* Both branches of a successful recruitment have happened to the player's
\* hero: its warrior stack grew by two and a stack of two cavalry was appended,
\* 2 x 100 + 2 x 200 gold were paid and the pool of Frostgate, which had
\* fourteen warriors and two cavalry, offers twelve warriors and no cavalry.
RecruitWitness ==
    /\ last = Call("recruitUnit", "true")
    /\ worldMap = Road
    /\ Len(getHero(factions, "hero_rzc2yvcs").crew) = 3
    /\ getHero(factions, "hero_rzc2yvcs").crew[1].count = 12
    /\ getHero(factions, "hero_rzc2yvcs").crew[3].type = "cavalry"
    /\ getHero(factions, "hero_rzc2yvcs").crew[3].count = 2
    /\ factions[1].resources.gold = 400
    /\ pointsOfInterest[1].id = "town_lugecjjl"
    /\ pointsOfInterest[1].recruitPool[1].available = 12
    /\ pointsOfInterest[1].recruitPool[3].available = 0

\* The stack as a combat unit that has neither acted nor defends.
FreshFrom(cu, unit) ==
    /\ cu.id = unit.id /\ cu.type = unit.type /\ cu.count = unit.count
    /\ cu.stats = unit.stats
    /\ ~cu.hasActed /\ ~cu.isDefending

\* C12: startCombat with an attacker that exists and a defender that resolves
\* (a hero that exists, or a point of interest) sets the phase to combat and
\* creates a combat state whose rosters are the two armies stack by stack,
\* no unit having acted or defending, currentUnitIndex 0, and whose turnOrder
\* is a permutation of the attacker's units followed by the defender's, in
\* non-increasing speed, units of equal speed in their input order.  With an
\* unknown attacker or defender hero id the state is unchanged.
CombatStartsOrdered ==
    /\ [](\A attackerId \in HeroIds, defenderId \in Defenders :
            LET c        == startCombat(factions, attackerId, defenderId)
                known(h) == \E i \in 1..Len(AllHeroes(factions)) : AllHeroes(factions)[i].id = h
                army     == getHero(factions, attackerId).crew
                enemy    == IF IsHeroId(defenderId) THEN getHero(factions, defenderId.hero).crew
                            ELSE defenderId.poi.garrison
                units    == c.attackerUnits \o c.defenderUnits
                n        == Len(units)
                \* the place of units[i] in the one ordering the claim allows:
                \* behind every faster unit and every earlier unit as fast
                place(i) ==
                    1 + Cardinality({ j \in 1..n :
                                        \/ units[j].stats.speed > units[i].stats.speed
                                        \/ /\ units[j].stats.speed = units[i].stats.speed
                                           /\ j < i })
            IN  IF known(attackerId) /\ (IsHeroId(defenderId) => known(defenderId.hero))
                THEN /\ c # NoCombat
                     /\ c.currentUnitIndex = 0
                     /\ c.combatLog = << >>
                     /\ Len(c.attackerUnits) = Len(army)
                     /\ \A i \in 1..Len(army) : FreshFrom(c.attackerUnits[i], army[i])
                     /\ Len(c.defenderUnits) = Len(enemy)
                     /\ \A i \in 1..Len(enemy) : FreshFrom(c.defenderUnits[i], enemy[i])
                     /\ Len(c.turnOrder) = n
                     /\ \A i \in 1..n : c.turnOrder[place(i)] = units[i]
                ELSE c = NoCombat)
    /\ [][last'.op = "startCombat" =>
            \/ UNCHANGED game
            \/ /\ gamePhase' = "combat"
               /\ \E attackerId \in HeroIds, defenderId \in Defenders :
                     /\ startCombat(factions, attackerId, defenderId) # NoCombat
                     /\ combatState' = startCombat(factions, attackerId, defenderId)
               /\ UNCHANGED <<turn, currentFaction, worldMap, factions, pointsOfInterest,
                              selectedHeroId>>]_vars

\* The player's hero against the seven stacks of the wold's camp: the four
\* cavalry stacks move first in garrison order, then the archers, the hero's
\* before the camp's, then the warriors, the hero's before the camp's two.
CombatStartsWitness ==
    /\ last = Call("startCombat", "void")
    /\ gamePhase = "combat"
    /\ combatState # NoCombat
    /\ [i \in 1..Len(combatState.turnOrder) |-> combatState.turnOrder[i].id]
          = << "unit_nv0g3tpo", "unit_bcevuq1y", "unit_c6u2ta6p", "unit_rcyycwvn",
               "unit_60xw35qz", "unit_z8a7q15y",
               "unit_cxgyizhr", "unit_4sskrsoi", "unit_p9vt26ay" >>

\* The units of both rosters, the attacker's first.
Roster(combat) == combat.attackerUnits \o combat.defenderUnits

\* The first unit of the rosters with the id, 0 when no unit has it.
Named(combat, id) ==
    IF \E i \in 1..Len(Roster(combat)) : Roster(combat)[i].id = id
    THEN CHOOSE i \in 1..Len(Roster(combat)) :
            /\ Roster(combat)[i].id = id
            /\ \A j \in 1..(i - 1) : Roster(combat)[j].id # id
    ELSE 0

\* The action is applied: its unit is in a roster and has not acted.
Applies(combat, action) ==
    /\ Named(combat, action.sourceUnit) # 0
    /\ ~Roster(combat)[Named(combat, action.sourceUnit)].hasActed

\* C13: after an action is applied and both rosters still stand, the acting
\* unit has acted and currentUnitIndex is the previous index plus one modulo
\* the length of the queue; and once every unit of the queue has acted, the
\* hasActed and isDefending flags are all false again, so that no state with
\* both rosters standing has every unit of the queue marked as having acted.
CombatTurnCycle ==
    /\ [](combatState # NoCombat =>
            \A action \in Actions :
                LET after == executeCombatAction(combatState, action)
                IN  (Applies(combatState, action) /\ BothSidesStand(after)) =>
                      /\ after.currentUnitIndex
                            = (combatState.currentUnitIndex + 1) % Len(combatState.turnOrder)
                      /\ Named(after, action.sourceUnit) # 0 =>
                            Roster(after)[Named(after, action.sourceUnit)].hasActed)
    /\ [](BothSidesStand(combatState) =>
            ~ \A k \in 1..Len(combatState.turnOrder) :
                  /\ Named(combatState, combatState.turnOrder[k].id) # 0
                  /\ Roster(combatState)[Named(combatState, combatState.turnOrder[k].id)].hasActed)

\* C14: an applied attack on a unit of the rosters deals
\* max(1, attack x count - defence of the target), takes that from the target's
\* HP, leaves the target max(0, count - floor(damage / template max HP))
\* creatures, appends one entry to the log and keeps the earlier ones, removes
\* the target from its roster, once, exactly when its count or HP is then at
\* most 0, and leaves every other roster member as it was (the acting unit is
\* marked as having acted).
AttackConserves ==
    combatState # NoCombat =>
      \A action \in Actions :
        LET before == Roster(combatState)
            si     == Named(combatState, action.sourceUnit)
            ti     == IF "targetUnit" \in DOMAIN action
                      THEN Named(combatState, action.targetUnit) ELSE 0
            after  == executeCombatAction(combatState, action)
            raw    == Minus(Whole(before[si].stats.attack * before[si].count),
                            before[ti].stats.defense)
            dealt  == IF raw.num < raw.den THEN Whole(1) ELSE raw
            hp     == Minus(before[ti].stats.hp, dealt)
            lost   == Floor(Scaled(dealt, 1, UNIT_TEMPLATES(before[ti].type).stats.maxHp))
            count  == IF before[ti].count - lost < 0 THEN 0 ELSE before[ti].count - lost
            \* the roster members other than the target, the acting one marked
            others(seq, skip, mark) ==
                LET keep == { i \in 1..Len(seq) : i # skip }
                IN  [i \in keep |-> IF i = mark THEN [seq[i] EXCEPT !.hasActed = TRUE]
                                    ELSE seq[i]]
            gone   == count <= 0 \/ hp.num <= 0
        IN  (action.type = "attack" /\ Applies(combatState, action) /\ ti # 0) =>
              /\ Len(after.combatLog) = Len(combatState.combatLog) + 1
              /\ SubSeq(after.combatLog, 1, Len(combatState.combatLog)) = combatState.combatLog
              /\ after.combatLog[Len(after.combatLog)].damage = dealt
              /\ IF gone
                 THEN /\ Len(Roster(after)) = Len(before) - 1
                      /\ \A i \in 1..Len(Roster(after)) :
                            Roster(after)[i] =
                               others(before, ti, si)[IF i < ti THEN i ELSE i + 1]
                      /\ Len(after.attackerUnits) =
                            Len(combatState.attackerUnits)
                              - (IF ti <= Len(combatState.attackerUnits) THEN 1 ELSE 0)
                 ELSE /\ Len(after.attackerUnits) = Len(combatState.attackerUnits)
                      /\ Len(after.defenderUnits) = Len(combatState.defenderUnits)
                      /\ Roster(after)[ti].stats.hp = hp
                      /\ Roster(after)[ti].count = count
                      /\ Roster(after)[ti].stats.defense = before[ti].stats.defense
                      /\ Roster(after)[ti].id = before[ti].id
                      /\ \A i \in 1..Len(before) : i # ti =>
                            Roster(after)[i] = others(before, ti, si)[i]

\* Two hits have landed, the second on a unit that defends: the enemy's
\* archers took 10 x 12 - 4 = 116 from the player's warriors and are gone;
\* the enemy's warriors, whose defence a defend had raised from 8 to 12, took
\* 5 x 10 - 12 = 38 from the player's archers and stand with 12 HP and all
\* ten creatures.
AttackWitness ==
    /\ last = Call("executeCombatAction", "void")
    /\ combatState # NoCombat
    /\ Len(combatState.combatLog) = 2
    /\ combatState.combatLog[1].damage = Whole(116)
    /\ combatState.combatLog[2].damage = Whole(38)
    /\ Len(combatState.attackerUnits) = 2
    /\ Len(combatState.defenderUnits) = 1
    /\ combatState.defenderUnits[1].stats.defense = Whole(12)
    /\ combatState.defenderUnits[1].stats.hp = Whole(12)
    /\ combatState.defenderUnits[1].count = 10

\* C15: executeCombatAction changes nothing unless a combat is active, the
\* source id names a unit of a roster, that unit has not acted, and it is the
\* unit at turnOrder[currentUnitIndex].
ActionOnlyInTurn ==
    /\ [](combatState # NoCombat =>
            \A action \in Actions :
                (~ /\ Applies(combatState, action)
                   /\ combatState.turnOrder[combatState.currentUnitIndex + 1].id
                         = action.sourceUnit)
                  => executeCombatAction(combatState, action) = combatState)
    /\ [][(last'.op = "executeCombatAction" /\ combatState = NoCombat) => UNCHANGED game]_vars

\* C16: moveHero for a hero of a faction other than the current one returns
\* false and commits the roster as it was, whatever the target.
MoveOnlyInTurn ==
    \A order \in Orders(worldMap) :
        LET hero == getHero(factions, order[1])
            out  == moveHero(World(worldMap), factions, order[1], order[2])
        IN  (hero # NoHero /\ hero.factionId # currentFaction) =>
                /\ out.ret = "false"
                /\ out.factions = factions

\* The combat states a pass of runAutoBattle's loop can begin in, with `left`
\* rounds to go from the given states.
RECURSIVE Began(_, _)
Began(states, left) ==
    IF left <= 0 THEN {}
    ELSE UNION {
            on \cup
            UNION { IF next = on THEN {} ELSE Began(next, left - 1) :
                      next \in { { p.combat : p \in
                                     { q \in UNION { Round(combat) : combat \in on } :
                                         Len(q.combatAfterAttack.defenderUnits) > 0 } } } } :
              on \in { { combat \in states : BothSidesStand(combat) } } }

\* C17: whatever the random draws, runAutoBattle makes at most 20 rounds and
\* goes on exactly while both rosters stand; in every round each attacker
\* stack hits a living defender (so, unless the defenders are wiped out on
\* the way, the log grows by one entry per attacker stack), and every round
\* adds at least one entry to the log.
AutoBattleFightsRounds ==
    combatState # NoCombat =>
        /\ \A out \in runAutoBattle(combatState) :
              /\ out.maxRounds \in 0..maxRounds
              /\ out.maxRounds > 0 => ~BothSidesStand(out.combat)
        /\ \A start \in Began({combatState}, maxRounds) :
              \A pass \in Round(start) :
                  /\ Len(pass.combatAfterAttack.defenderUnits) > 0 =>
                        Len(pass.combatAfterAttack.combatLog)
                            = Len(start.combatLog) + Len(start.attackerUnits)
                  /\ Len(pass.combat.combatLog) > Len(start.combatLog)

\* C18: endCombat on an active combat with an attacker's win gives the
\* attacking hero result.experienceGained (a full bar becomes one level) and
\* the hero's faction result.resourcesLooted in each kind, and no other
\* treasury changes; with a defender's win the roster stays as it was; with
\* no active combat nothing changes.  (When initGame has replaced the roster
\* during the battle and no hero has the attacker's id, nobody is rewarded.)
EndCombatRewards ==
    \A result \in Results :
        LET out    == endCombat(factions, combatState, gamePhase, result)
            id     == combatState.attacker.id
            before == getHero(factions, id)
            after  == getHero(out.factions, id)
        IN  /\ combatState = NoCombat =>
                  /\ out.factions = factions
                  /\ out.combatState = combatState
                  /\ out.gamePhase = gamePhase
            /\ (combatState # NoCombat /\ result.winner = "defender") =>
                  out.factions = factions
            /\ (combatState # NoCombat /\ result.winner = "attacker" /\ before = NoHero) =>
                  out.factions = factions
            /\ (combatState # NoCombat /\ result.winner = "attacker" /\ before # NoHero) =>
                  /\ \/ /\ after.level = before.level
                        /\ after.experience = before.experience + result.experienceGained
                        /\ after.experience < before.experienceToNext
                     \/ /\ after.level = before.level + 1
                        /\ after.experience = before.experience + result.experienceGained
                                                  - before.experienceToNext
                        /\ after.experience >= 0
                  /\ \A f \in 1..Len(factions) : \A k \in Kinds :
                        out.factions[f].resources[k] =
                            factions[f].resources[k]
                              + (IF factions[f].id = before.factionId
                                 THEN result.resourcesLooted[k] ELSE 0)
                  /\ \A o \in HeroIdsOf(factions) \ {id} :
                        getHero(out.factions, o) = getHero(factions, o)

\* The player's hero won a battle worth a whole level: level 2, an empty
\* experience bar, and the loot in the player's treasury.
EndCombatRewardsWitness ==
    /\ last = Call("endCombat", "void")
    /\ worldMap = Road
    /\ combatState = NoCombat
    /\ getHero(factions, "hero_rzc2yvcs").level = 2
    /\ getHero(factions, "hero_rzc2yvcs").experience = 0
    /\ factions[1].resources = Resources(1100, 220, 110, 55)
    /\ factions[2].resources = Resources(800, 150, 80, 30)

\* C19: endCombat on an active combat always leaves no combat state and the
\* phase world_map; after an attacker's win the attacking hero's army is the
\* attacker roster of the battle: as many stacks, in the same order, with the
\* same ids, types and counts.
EndCombatKeepsSurvivors ==
    combatState # NoCombat =>
        \A result \in Results :
            LET out  == endCombat(factions, combatState, gamePhase, result)
                army == getHero(out.factions, combatState.attacker.id).crew
            IN  /\ out.combatState = NoCombat
                /\ out.gamePhase = "world_map"
                /\ (result.winner = "attacker"
                        /\ getHero(factions, combatState.attacker.id) # NoHero) =>
                      /\ Len(army) = Len(combatState.attackerUnits)
                      /\ \A i \in 1..Len(army) :
                            /\ army[i].id = combatState.attackerUnits[i].id
                            /\ army[i].type = combatState.attackerUnits[i].type
                            /\ army[i].count = combatState.attackerUnits[i].count

\* The player's hero lost its archers in the battle and won: the army is the
\* ten warriors alone.
EndCombatSurvivorsWitness ==
    /\ last = Call("endCombat", "void")
    /\ worldMap = Road
    /\ gamePhase = "world_map"
    /\ combatState = NoCombat
    /\ Len(getHero(factions, "hero_rzc2yvcs").crew) = 1
    /\ getHero(factions, "hero_rzc2yvcs").crew[1].id = "unit_0z1g0iqz"
    /\ getHero(factions, "hero_rzc2yvcs").crew[1].count = 10
    /\ getHero(factions, "hero_rzc2yvcs").experience = 50

\* C20: a combat state exists exactly in the phase combat.
CombatOnlyInCombatPhase ==
    (combatState # NoCombat) <=> (gamePhase = "combat")

\* C21: the phase changes only from menu to world_map (by initGame), between
\* world_map and town, from world_map to combat, and from combat to world_map
\* (by endCombat); and an enterTown either changes nothing or moves the phase
\* to town, a town being on the map.
PhaseFollowsEdges ==
    /\ [][\/ gamePhase' = gamePhase
          \/ gamePhase = "menu" /\ gamePhase' = "world_map" /\ last'.op = "initGame"
          \/ gamePhase = "world_map" /\ gamePhase' \in {"town", "combat"}
          \/ gamePhase = "town" /\ gamePhase' = "world_map"
          \/ gamePhase = "combat" /\ gamePhase' = "world_map" /\ last'.op = "endCombat"]_vars
    /\ [][last'.op = "enterTown" =>
            \/ UNCHANGED game
            \/ /\ gamePhase' = "town"
               /\ \E i \in 1..Len(pointsOfInterest) : pointsOfInterest[i].type = "town"
               /\ UNCHANGED <<turn, currentFaction, worldMap, factions, pointsOfInterest,
                              combatState, selectedHeroId>>]_vars

\* C22: no command ends by raising an exception, whatever its input and
\* whatever the state it is issued in.
NoCommandThrows == last.ret # "throw"

\* C23: no faction ever holds a negative amount of gold, wood, stone or
\* crystals.
TreasuriesNeverNegative ==
    \A f \in 1..Len(factions) : \A k \in Kinds : factions[f].resources[k] >= 0

\* The player has paid 150 wood and all of its 100 stone.
TreasuryEmptiedWitness ==
    /\ last = Call("spendResources", "true")
    /\ factions[1].resources.stone = 0
    /\ factions[1].resources.wood = 50

\* C24: every stack of every hero's army holds at least one creature.
ArmiesHoldNoEmptyStack ==
    \A h \in 1..Len(AllHeroes(factions)) :
        \A u \in 1..Len(AllHeroes(factions)[h].crew) :
            AllHeroes(factions)[h].crew[u].count > 0

\* C25: every hero's stored position is on the map and on a passable tile.
HeroesStandOnTheMap ==
    \A h \in 1..Len(AllHeroes(factions)) :
        PassableAt(World(worldMap), AllHeroes(factions)[h].position)

\* C27: the state a command leaves is determined by the state it is issued in
\* and its arguments: runAutoBattle leaves the same combat state and returns
\* the same result whatever Math.random() yields, and recruitUnit commits the
\* same roster whatever the clock reads.
PlayIsDetermined ==
    /\ combatState # NoCombat =>
          \A o1, o2 \in runAutoBattle(combatState) :
              /\ o1.combat = o2.combat
              /\ o1.result = o2.result
    /\ \A townId \in RecruitTowns, unitType \in RecruitTypes, count \in Counts :
          \A t1, t2 \in Stamps :
              recruitUnit(factions, pointsOfInterest, selectedHeroId, townId, unitType, count, t1)
                = recruitUnit(factions, pointsOfInterest, selectedHeroId, townId, unitType, count, t2)

\* How many times x occurs in seq.
Occurrences(seq, x) == Cardinality({ i \in 1..Len(seq) : seq[i] = x })

\* C30: a shuffle returns an array as long as the one handed in, holding each
\* element as many times, and leaves the array handed in as it was; and a
\* second generator that is in the state the first was in returns, for the
\* array the first was handed, the array the first returned.
ShuffleLaws ==
    /\ \A elements \in Arrays :
          LET out == shuffle(elements, rng)
          IN  /\ Len(out.ret) = Len(elements)
              /\ \A x \in {"a", "b", "c", "d", "e"} :
                    Occurrences(out.ret, x) = Occurrences(elements, x)
              /\ out.array = elements
    /\ made.first.op = "shuffle" =>
          /\ Len(made.first.ret) = Len(made.first.arg)
          /\ \A x \in {"a", "b", "c", "d", "e"} :
                Occurrences(made.first.ret, x) = Occurrences(made.first.arg, x)
          /\ arrayHeld = made.first.arg
    /\ (made.first.op = "shuffle" /\ made.second # NoCall
           /\ made.second.from = made.first.from) =>
          made.second.ret = made.first.ret

\* Five elements came back in another order from a generator that had drawn
\* before, and once more from the second generator, which had drawn as often;
\* the caller's array is as it was made.
ShuffleWitness ==
    /\ made.first.op = "shuffle"
    /\ made.first.arg = << "a", "b", "c", "d", "e" >>
    /\ made.first.ret # made.first.arg
    /\ made.first.from.at = 1
    /\ made.second # NoCall
    /\ made.second.from = made.first.from
    /\ made.second.ret = made.first.ret
    /\ arrayHeld = << "a", "b", "c", "d", "e" >>

\* The generateWorld calls on record.
WorldCalls == { c \in {made.first} : c.op = "generateWorld" }

\* The towns of a world, in the order of its points of interest.
TownsIn(world) == SelectSeq(world.pointsOfInterest, LAMBDA p : p.type = "town")

\* C28: in every generated world any two towns are at Manhattan distance 8 or
\* more, and there are no more towns than the configuration asks for.
TownsKeepApart ==
    \A c \in WorldCalls :
        /\ \A i, j \in 1..Len(TownsIn(c.world)) :
              i # j => manhattanDistance(TownsIn(c.world)[i].position,
                                         TownsIn(c.world)[j].position) >= 8
        /\ Len(TownsIn(c.world)) <= c.config.numTowns

\* A world asked for six towns that holds three, the second 8 from the
\* first and the third 8 or more from both, generated from a map with room
\* for more positions than that.
TownsKeepApartWitness ==
    /\ made.first.op = "generateWorld"
    /\ made.first.config.numTowns = 6
    /\ Len(TownsIn(made.first.world)) = 3
    /\ manhattanDistance(TownsIn(made.first.world)[1].position,
                         TownsIn(made.first.world)[2].position) = 8
    /\ Len(findValidPositions(made.first.world.tiles, {"grass", "desert", "road"})) > 3

\* C29: every generated world has exactly one town of the player, the first
\* town placed, which is discovered; every other town is neutral and not
\* discovered.
OnePlayerTown ==
    \A c \in WorldCalls :
        /\ Len(TownsIn(c.world)) >= 1
        /\ \A i \in 1..Len(TownsIn(c.world)) :
              IF i = 1
              THEN /\ TownsIn(c.world)[i].factionId = "player"
                   /\ TownsIn(c.world)[i].isDiscovered
              ELSE /\ TownsIn(c.world)[i].factionId = "neutral"
                   /\ ~TownsIn(c.world)[i].isDiscovered

\* The moveHero calls of the recorded executeAITurn.
MoveCalls == SelectSeq(made.first.calls, LAMBDA c : c.call = "moveHero")

\* C31: every move the AI controller proposes for a hero has its target in
\* the store's getMovementRange for that hero, so moveHero accepts it.
AIMovesAreReachable ==
    made.first.op = "executeAITurn" =>
        \A h \in 1..Len(made.first.state.faction.heroes) :
            LET hero  == made.first.state.faction.heroes[h]
                moves == evaluateMoveActions(made.first.state, hero)
            IN  \A i \in 1..Len(moves) :
                    /\ canMoveTo(made.first.state.worldMap, made.first.state.allFactions,
                                 hero.id, moves[i].target)
                    /\ moveHero(made.first.state.worldMap, made.first.state.allFactions,
                                hero.id, moves[i].target).ret = "true"

\* C32: executeAITurn hands moveHero, for each hero, an action computed for
\* that hero, and ends the turn exactly once.
AITurnServesEachHero ==
    made.first.op = "executeAITurn" =>
        /\ \A i \in 1..Len(MoveCalls) : MoveCalls[i].action.heroId = MoveCalls[i].heroId
        /\ Len(SelectSeq(made.first.calls, LAMBDA c : c.call = "setTimeout")) = 1

\* The positions the walk of generateRoads stands on, from the first town to
\* end, where it stops.
RECURSIVE roadPath(_, _, _, _)
roadPath(current, end, g, tiles) ==
    IF current = end THEN << current >>
    ELSE << current >> \o roadPath(roadStep(current, end, g, Len(tiles[1]), Len(tiles)),
                                   end, Drawn(g, 1), tiles)

\* The walk of the recorded generateRoads call, between its two towns.
CarvedPath ==
    roadPath(made.first.towns[1].position, made.first.towns[2].position,
             made.first.rng, made.first.tiles)

\* C33: road carving terminates for every pair of consecutive towns and
\* every outcome of the random choices: each step of the walk, whichever way
\* the choice falls (a draw of 0 takes the primary direction, the highest draw
\* the secondary one), lowers the Manhattan distance to the destination town
\* by exactly 1 and stays on the map, so the walk arrives after as many steps
\* as the towns are apart; every passable tile the walk stands on, the
\* destination town's included, ends as road with the movement cost of a road
\* (half that of grass), while impassable tiles and tiles off the walk stay
\* as they were.
RoadsAreCarved ==
    made.first.op = "generateRoads" =>
        LET tiles == made.first.tiles
            out   == made.first.out
            end   == made.first.towns[2].position
            path  == CarvedPath
        IN  /\ Len(path) = manhattanDistance(made.first.towns[1].position, end) + 1
            /\ path[Len(path)] = end
            /\ \A i \in 1..(Len(path) - 1) :
                  \A draw \in {0, Grain - 1} :
                      LET next == roadStep(path[i], end,
                                           SeededRandom([stream |-> << draw >>, of |-> Grain]),
                                           Len(tiles[1]), Len(tiles))
                      IN  /\ manhattanDistance(next, end)
                                = manhattanDistance(path[i], end) - 1
                          /\ next.x \in 0..(Len(tiles[1]) - 1)
                          /\ next.y \in 0..(Len(tiles) - 1)
            /\ \A r \in 1..Len(tiles) :
                  \A c \in 1..Len(tiles[1]) :
                      IF /\ tiles[r][c].isPassable
                         /\ \E i \in 1..Len(path) : path[i] = Pos(c - 1, r - 1)
                      THEN /\ out[r][c] = [tiles[r][c] EXCEPT
                                              !.terrain = "road",
                                              !.movementCost = TERRAIN_COSTS("road")]
                           /\ 2 * out[r][c].movementCost = TERRAIN_COSTS("grass")
                      ELSE out[r][c] = tiles[r][c]

\* C34: a battle can always progress: whenever a combat is on and both
\* rosters are non-empty, some unit of the rosters has hasActed = FALSE (once
\* all living units have acted a new round has begun).
BattleCanProgress ==
    (/\ combatState # NoCombat
     /\ Len(combatState.attackerUnits) > 0
     /\ Len(combatState.defenderUnits) > 0)
        => \E i \in 1..Len(combatState.attackerUnits \o combatState.defenderUnits) :
              ~(combatState.attackerUnits \o combatState.defenderUnits)[i].hasActed

\* C35: the winner runAutoBattle reports fits the rosters it leaves: attacker
\* only when the defender roster is empty, defender only when the attacker
\* roster is empty, also when the cap of 20 rounds is reached.
WinnerFitsRosters ==
    (last.op = "runAutoBattle" /\ combatState # NoCombat) =>
        /\ last.ret = "attacker" => Len(combatState.defenderUnits) = 0
        /\ last.ret = "defender" => Len(combatState.attackerUnits) = 0

\* C36: within one turn a hero travels no further than its movement points
\* allow: every position the player's hero occupies before its movement
\* points are first reset (turn 1) is where the turn began or lies in the
\* movement range computed there.
HeroKeepsToTurnRange ==
    (worldMap = Wold /\ turn = 1) =>
        LET began == InitialFactions(Wold)
            range == getMovementRange(World(Wold), began, "hero_ai4i38zw")
            hero  == getHero(factions, "hero_ai4i38zw")
        IN  \/ hero.position = getHero(began, "hero_ai4i38zw").position
            \/ \E i \in 1..Len(range) : range[i] = hero.position

\* C37: right after startCombat every combat unit stands on a cell of the
\* battle grid (0 <= x < gridWidth = 8, 0 <= y < gridHeight = 6), attackers in
\* column 0 and defenders in column 7, no two units on the same cell.
UnitsStandOnTheGrid ==
    combatState # NoCombat =>
        LET all == combatState.attackerUnits \o combatState.defenderUnits
        IN  /\ combatState.gridWidth = 8
            /\ combatState.gridHeight = 6
            /\ \A i \in 1..Len(all) :
                  /\ all[i].combatPosition.x \in 0..(combatState.gridWidth - 1)
                  /\ all[i].combatPosition.y \in 0..(combatState.gridHeight - 1)
                  /\ all[i].combatPosition.x
                        = IF i <= Len(combatState.attackerUnits) THEN 0 ELSE 7
                  /\ \A j \in 1..Len(all) :
                        i # j => all[i].combatPosition # all[j].combatPosition

\* C38: the defend bonus lasts for the combat and no longer: outside combat
\* every stack of every hero's army has the attack, defense and speed it had
\* before the battle, those of its unit type (only HP and count may differ).
DefendBonusEndsWithCombat ==
    combatState = NoCombat =>
        \A h \in 1..Len(AllHeroes(factions)) :
            \A i \in 1..Len(AllHeroes(factions)[h].crew) :
                LET unit == AllHeroes(factions)[h].crew[i]
                IN  /\ unit.stats.attack = UNIT_TEMPLATES(unit.type).stats.attack
                    /\ unit.stats.defense = UNIT_TEMPLATES(unit.type).stats.defense
                    /\ unit.stats.speed = UNIT_TEMPLATES(unit.type).stats.speed

\* The defender of the combat is a hero (it has an army), not a point of
\* interest.
DefenderIsHero == "crew" \in DOMAIN combatState.defender

\* The army, owner and position of a hero.
Standing(hero) ==
    [crew |-> hero.crew, factionId |-> hero.factionId, position |-> hero.position]

\* C39: combat never changes the defender in the world.  While a combat is
\* on, the defending hero in the factions, or the defending point of interest
\* in the world, is as startCombat found it (army or garrison, owner,
\* position); endCombat with either result leaves the defending hero's army,
\* owner and position as they were before the battle, and with a defender's
\* win the attacking hero's army too; no step of a combat changes the points
\* of interest or the map.
CombatSparesDefender ==
    /\ [](combatState # NoCombat =>
            /\ IF DefenderIsHero
               THEN getHero(factions, combatState.defender.id) = combatState.defender
               ELSE \E i \in 1..Len(pointsOfInterest) :
                        pointsOfInterest[i] = combatState.defender
            /\ \A result \in Results :
                  LET out == endCombat(factions, combatState, gamePhase, result)
                  IN  /\ DefenderIsHero =>
                            Standing(getHero(out.factions, combatState.defender.id))
                                = Standing(combatState.defender)
                      /\ result.winner = "defender" =>
                            getHero(out.factions, combatState.attacker.id).crew
                                = combatState.attacker.crew)
    /\ [][last'.op \in {"startCombat", "executeCombatAction", "runAutoBattle", "endCombat"}
            => /\ pointsOfInterest' = pointsOfInterest
               /\ worldMap' = worldMap
               /\ (combatState # NoCombat /\ combatState' = NoCombat /\ DefenderIsHero) =>
                        Standing(getHero(factions', combatState.defender.id))
                            = Standing(combatState.defender)]_vars

====
